---- MODULE Spec2Model ----
(***************************************************************************)
(* Task-tree mutation and history engine of dotdot (package tui).         *)
(* The forest is a sequence of task records with nested subtasks; the     *)
(* session is the Model struct; every key handler is one action.          *)
(***************************************************************************)
EXTENDS Integers, Sequences, FiniteSets, TLC

\* ------------------------------------------------------------------ bounds
\* number of key presses explored from construction
MaxSteps == 4
\* number of key presses explored in the runs of the history commands
MaxHistorySteps == 7
\* number of uuid.New() calls explored
MaxNewTasks == 2
\* Model.maxHistorySize; the program sets 50 (model.go:749), the model
\* scales the cap down so that eviction happens within MaxSteps
maxHistorySize == 2
\* number of task records in the lists the conversion layer is applied to
MaxDataRecords == 3

\* ------------------------------------------------------- program constants
Todo == 0
Active == 1
Done == 2

\* the empty string used for "no cursor" / "no previous id"
NoID == 0

\* ids 1..MaxInitTasks belong to tasks loaded at construction; the n-th call
\* of uuid.New() yields MaxInitTasks + n (fresh, never reused)
MaxInitTasks == 4
NewUUID(n) == MaxInitTasks + n

\* ------------------------------------------------------------- task forest
\* NewTaskWithID
NewTaskWithID(id, title, status, subtasks) ==
    [id |-> id, title |-> title, status |-> status, subtasks |-> subtasks]

\* NewTask: id from uuid.New()
NewTask(uuid, title, status) == NewTaskWithID(uuid, title, status, <<>>)

\* traverseTasks visiting the subtasks of a task before the task itself
RECURSIVE traverseTasks_ChildrenFirst(_)
traverseTasks_ChildrenFirst(ts) ==
    IF ts = <<>> THEN <<>>
    ELSE traverseTasks_ChildrenFirst(ts[1].subtasks) \o <<ts[1]>>
         \o traverseTasks_ChildrenFirst(Tail(ts))

\* traverseTasks with a function that never stops: the tasks in visit order
RECURSIVE traverseTasks(_)
traverseTasks(ts) ==
    IF ts = <<>> THEN <<>>
    ELSE <<ts[1]>> \o traverseTasks(ts[1].subtasks) \o traverseTasks(Tail(ts))

\* getAllTaskIDs
getAllTaskIDs(ts) ==
    LET all == traverseTasks(ts) IN [i \in 1..Len(all) |-> all[i].id]

\* position (sequence of 1-based indices) of the first task in traversal
\* order whose id matches: the *Task that findTaskByID returns; <<>> is nil
RECURSIVE findTaskFrom(_, _, _)
findTaskFrom(ts, id, i) ==
    IF i > Len(ts) THEN <<>>
    ELSE IF ts[i].id = id THEN <<i>>
    ELSE LET sub == findTaskFrom(ts[i].subtasks, id, 1)
         IN IF sub # <<>> THEN <<i>> \o sub ELSE findTaskFrom(ts, id, i + 1)

findTaskByID(ts, id) == findTaskFrom(ts, id, 1)

\* dereference of a non-nil *Task
RECURSIVE TaskAt(_, _)
TaskAt(ts, path) ==
    IF Len(path) = 1 THEN ts[path[1]]
    ELSE TaskAt(ts[path[1]].subtasks, Tail(path))

\* write through a non-nil *Task
RECURSIVE SetTaskAt(_, _, _)
SetTaskAt(ts, path, t) ==
    IF Len(path) = 1 THEN [ts EXCEPT ![path[1]] = t]
    ELSE [ts EXCEPT ![path[1]].subtasks =
                SetTaskAt(ts[path[1]].subtasks, Tail(path), t)]

\* the (nil, -1) result of findParentTask
NotFound == [parent |-> <<>>, index |-> -1]

\* smallest 0-based index of id in a slice; -1 when absent
IndexIn(slice, id) ==
    IF \E j \in 1..Len(slice) : slice[j].id = id
    THEN (CHOOSE j \in 1..Len(slice) :
              /\ slice[j].id = id
              /\ \A k \in 1..(j - 1) : slice[k].id # id) - 1
    ELSE -1

\* the recursive helper "search" of findParentTask
RECURSIVE searchParent(_, _, _, _)
searchParent(ts, id, prefix, i) ==
    IF i > Len(ts) THEN NotFound
    ELSE IF IndexIn(ts[i].subtasks, id) >= 0
         THEN [parent |-> prefix \o <<i>>, index |-> IndexIn(ts[i].subtasks, id)]
    ELSE LET r == IF Len(ts[i].subtasks) > 0
                  THEN searchParent(ts[i].subtasks, id, prefix \o <<i>>, 1)
                  ELSE NotFound
         IN IF r.parent # <<>> THEN r ELSE searchParent(ts, id, prefix, i + 1)

\* findParentTask: parent is the position of the parent task (<<>> is nil),
\* index is the 0-based index within the container, -1 when not found
findParentTask(ts, id) ==
    IF IndexIn(ts, id) >= 0
    THEN [parent |-> <<>>, index |-> IndexIn(ts, id)]
    ELSE searchParent(ts, id, <<>>, 1)

\* getTaskContainer: the slice a *[]Task points to
getTaskContainer(ts, parent) ==
    IF parent = <<>> THEN ts ELSE TaskAt(ts, parent).subtasks

\* assignment through the *[]Task returned by getTaskContainer
SetTaskContainer(ts, parent, slice) ==
    IF parent = <<>> THEN slice
    ELSE SetTaskAt(ts, parent, [TaskAt(ts, parent) EXCEPT !.subtasks = slice])

\* removeTaskFromSlice cutting the slice at the index, without the copy that
\* shifts the later tasks left
removeTaskFromSlice_Truncates(slice, index) ==
    SubSeq(slice, 1, index)

\* removeTaskFromSlice (0-based index): the slice afterwards
removeTaskFromSlice(slice, index) ==
    SubSeq(slice, 1, index) \o SubSeq(slice, index + 2, Len(slice))

\* insertTaskInSlice writing the task over the one at the index, without
\* the shift that makes room for it
insertTaskInSlice_Overwrites(slice, index, task) ==
    SubSeq(slice, 1, index) \o <<task>> \o SubSeq(slice, index + 2, Len(slice))

\* insertTaskInSlice (0-based index)
insertTaskInSlice(slice, index, task) ==
    SubSeq(slice, 1, index) \o <<task>> \o SubSeq(slice, index + 1, Len(slice))

\* getAdjacentTaskID going round to the other end at a boundary
getAdjacentTaskID_Wraps(ts, cursor, direction) ==
    LET ids == getAllTaskIDs(ts)
        hit == {i \in 1..Len(ids) : ids[i] = cursor}
    IN IF hit = {} THEN cursor
       ELSE LET i == CHOOSE x \in hit : \A y \in hit : x <= y
            IN ids[((i - 1 + direction + Len(ids)) % Len(ids)) + 1]

\* getAdjacentTaskID
getAdjacentTaskID(ts, cursor, direction) ==
    LET ids == getAllTaskIDs(ts)
        hit == {i \in 1..Len(ids) : ids[i] = cursor}
    IN IF hit = {} THEN cursor
       ELSE LET i == CHOOSE x \in hit : \A y \in hit : x <= y
                newIndex == i + direction
            IN IF newIndex >= 1 /\ newIndex <= Len(ids) THEN ids[newIndex]
               ELSE cursor

\* ------------------------------------------------------- conversion layer
\* a []storage.TaskData value: the nil slice, or a slice that make() or the
\* decoder allocated, with its elements
NilSlice == [isNil |-> TRUE, elems |-> <<>>]
MakeSlice(elems) == [isNil |-> FALSE, elems |-> elems]

\* ToTaskData; int(task.Status()) keeps the number of the status
RECURSIVE ToTaskData(_)
ToTaskData(task) ==
    [id |-> task.id, title |-> task.title, status |-> task.status,
     subtasks |-> MakeSlice([i \in 1..Len(task.subtasks) |->
                                ToTaskData(task.subtasks[i])])]

\* ToTaskDataSlice
ToTaskDataSlice(ts) ==
    MakeSlice([i \in 1..Len(ts) |-> ToTaskData(ts[i])])

\* FromTaskData leaving out the subtasks of the record
FromTaskData_Flat(data) ==
    NewTaskWithID(data.id, data.title, data.status, <<>>)

\* FromTaskData; len() of a nil slice is 0, and TaskStatus(data.Status)
\* keeps the number of the status
RECURSIVE FromTaskData(_)
FromTaskData(data) ==
    NewTaskWithID(data.id, data.title, data.status,
                  [i \in 1..Len(data.subtasks.elems) |->
                      FromTaskData(data.subtasks.elems[i])])

\* FromTaskDataSlice
FromTaskDataSlice(data) ==
    [i \in 1..Len(data.elems) |-> FromTaskData(data.elems[i])]

\* ------------------------------------------------------------ the session
VARIABLES
    tasks,          \* Model.tasks
    cursorID,       \* Model.cursorID
    previousID,     \* Model.previousID
    editing,        \* Model.editing
    autoSave,       \* Model.autoSave
    lastError,      \* Model.lastError
    showError,      \* Model.showError
    statusMessage,  \* Model.statusMessage
    undoStack,      \* Model.undoStack
    redoStack,      \* Model.redoStack
    store,          \* the storage the slices of Model.tasks live in
    allocs,         \* number of deepCopyTasks allocations so far
    created,        \* number of uuid.New() calls so far
    steps,          \* number of key presses so far
    limit,          \* number of key presses explored in this run
    lastCmd,        \* the logical command of the last key press
    lastSnaps,      \* number of takeSnapshot calls made by the last command
    lastSaves,      \* the SaveTasks calls made by the last command, in order
    pre,            \* the session as it was when the last command began
    taskData,       \* the []storage.TaskData last loaded from or written to the file
    reliableDisk,   \* whether every storage.SaveTasks call of the run succeeds
    gBase, gPost, gN, gU, gR  \* bookkeeping of "N commands, N undos, N redos"

vars == <<tasks, cursorID, previousID, editing, autoSave, lastError,
          showError, statusMessage, undoStack, redoStack, store, allocs,
          created, steps, limit,
          lastCmd, lastSnaps, lastSaves, pre, taskData, reliableDisk,
          gBase, gPost, gN, gU, gR>>

\* the Model value a handler receives; snaps and saves start empty and
\* collect the takeSnapshot and SaveTasks calls of the handler
M == [tasks |-> tasks, cursorID |-> cursorID, previousID |-> previousID,
      editing |-> editing, autoSave |-> autoSave, lastError |-> lastError,
      showError |-> showError, statusMessage |-> statusMessage,
      undoStack |-> undoStack, redoStack |-> redoStack,
      store |-> store, allocs |-> allocs,
      snaps |-> 0, saves |-> <<>>]

\* setError
setError(m, message) == [m EXCEPT !.lastError = message, !.showError = TRUE]

\* clearError
clearError(m) == [m EXCEPT !.lastError = "", !.showError = FALSE]

\* setStatus
setStatus(m, message) == [m EXCEPT !.statusMessage = message]

\* autoSaveIfEnabled without the clearError of a successful save
autoSaveIfEnabled_KeepsError(m, ok) ==
    IF m.autoSave
    THEN LET m1 == [m EXCEPT !.saves = Append(@, [tasks |-> m.tasks, ok |-> ok])]
         IN IF ok THEN m1 ELSE setError(m1, "Save failed")
    ELSE m

\* autoSaveIfEnabled with saveTasksToFile; ok is the outcome of
\* storage.SaveTasks
autoSaveIfEnabled(m, ok) ==
    IF m.autoSave
    THEN LET m1 == [m EXCEPT !.saves = Append(@, [tasks |-> m.tasks, ok |-> ok])]
         IN IF ok THEN clearError(m1) ELSE setError(m1, "Save failed")
    ELSE m

\* deepCopyTasks leaving out the status field of the copies
RECURSIVE deepCopyTasks_DropsStatus(_)
deepCopyTasks_DropsStatus(ts) ==
    [i \in 1..Len(ts) |->
        [id |-> ts[i].id, title |-> ts[i].title, status |-> Todo,
         subtasks |-> deepCopyTasks_DropsStatus(ts[i].subtasks)]]

\* deepCopyTasks
RECURSIVE deepCopyTasks(_)
deepCopyTasks(ts) ==
    [i \in 1..Len(ts) |->
        [id |-> ts[i].id, title |-> ts[i].title, status |-> ts[i].status,
         subtasks |-> deepCopyTasks(ts[i].subtasks)]]

\* a ModelSnapshot holding m.tasks itself, without deepCopyTasks
ModelSnapshot_Shallow(m) ==
    [tasks |-> m.tasks, cursorID |-> m.cursorID,
     previousID |-> m.previousID, store |-> m.store]

\* a ModelSnapshot holding deepCopyTasks(m.tasks): make() allocates every
\* slice of the copy, so the copy lives in storage of its own (store)
ModelSnapshot(m) ==
    [tasks |-> deepCopyTasks(m.tasks), cursorID |-> m.cursorID,
     previousID |-> m.previousID, store |-> m.allocs + 1]

\* PushLimited dropping the first entry one push too late
PushLimited_OffByOne(stack, snapshot) ==
    LET s == Append(stack, snapshot)
    IN IF Len(s) > maxHistorySize + 1 THEN Tail(s) ELSE s

\* append to a history stack, then drop the first entry while over the cap
PushLimited(stack, snapshot) ==
    LET s == Append(stack, snapshot)
    IN IF Len(s) > maxHistorySize THEN Tail(s) ELSE s

\* takeSnapshot leaving the redo stack as it is
takeSnapshot_KeepsRedo(m) ==
    [m EXCEPT !.undoStack = PushLimited(m.undoStack, ModelSnapshot(m)),
              !.allocs = @ + 1,
              !.snaps = @ + 1]

\* takeSnapshot
takeSnapshot(m) ==
    [m EXCEPT !.undoStack = PushLimited(m.undoStack, ModelSnapshot(m)),
              !.redoStack = <<>>,
              !.allocs = @ + 1,
              !.snaps = @ + 1]

\* a write into the slices of m.tasks (through a *Task, a *[]Task or an
\* append): every snapshot held in the same storage sees the write
WriteTasks(m, ts) ==
    LET shared(stack) ==
            [i \in 1..Len(stack) |->
                IF stack[i].store = m.store
                THEN [stack[i] EXCEPT !.tasks = ts] ELSE stack[i]]
    IN [m EXCEPT !.tasks = ts,
                 !.undoStack = shared(m.undoStack),
                 !.redoStack = shared(m.redoStack)]

\* modifyTaskByID without the save at its end
modifyTaskByID_NoSave(m, taskID, fn, ok) ==
    LET p == findTaskByID(m.tasks, taskID)
        t == TaskAt(m.tasks, p)
        modified == [k \in DOMAIN t |-> IF k \in DOMAIN fn THEN fn[k] ELSE t[k]]
    IN IF p = <<>> THEN m
       ELSE WriteTasks(m, SetTaskAt(m.tasks, p, modified))

\* modifyTaskByID: the modifier, given as the record fn of the fields it
\* assigns, is applied to the first task with the id; then save
modifyTaskByID(m, taskID, fn, ok) ==
    LET p == findTaskByID(m.tasks, taskID)
        t == TaskAt(m.tasks, p)
        modified == [k \in DOMAIN t |-> IF k \in DOMAIN fn THEN fn[k] ELSE t[k]]
        m1 == IF p = <<>> THEN m
              ELSE WriteTasks(m, SetTaskAt(m.tasks, p, modified))
    IN autoSaveIfEnabled(m1, ok)

\* editTaskTitle taking its snapshot also when the title stays the same
editTaskTitle_AlwaysSnapshot(m, taskID, newTitle, ok) ==
    LET p == findTaskByID(m.tasks, taskID)
        m1 == IF p # <<>> THEN takeSnapshot(m) ELSE m
    IN modifyTaskByID(m1, taskID, [title |-> newTitle], ok)

\* editTaskTitle
editTaskTitle(m, taskID, newTitle, ok) ==
    LET p == findTaskByID(m.tasks, taskID)
        m1 == IF p # <<>> /\ TaskAt(m.tasks, p).title # newTitle
              THEN takeSnapshot(m) ELSE m
    IN modifyTaskByID(m1, taskID, [title |-> newTitle], ok)

\* the status switch going from Todo straight to Done and back
NextStatus_SkipsActive(status, direction) ==
    IF direction > 0
    THEN (CASE status = Todo -> Done
            [] status = Active -> Done
            [] OTHER -> status)
    ELSE (CASE status = Done -> Todo
            [] status = Active -> Todo
            [] OTHER -> status)

\* the status switch inside changeTaskStatus
NextStatus(status, direction) ==
    IF direction > 0
    THEN (CASE status = Todo -> Active
            [] status = Active -> Done
            [] OTHER -> status)
    ELSE (CASE status = Done -> Active
            [] status = Active -> Todo
            [] OTHER -> status)

\* changeTaskStatus taking its snapshot whether or not the status changes
changeTaskStatus_AlwaysSnapshot(m, direction, ok) ==
    LET p == findTaskByID(m.tasks, m.cursorID)
    IN IF p = <<>> THEN m
       ELSE LET st == TaskAt(m.tasks, p).status
                m1 == takeSnapshot(m)
            IN modifyTaskByID(m1, m.cursorID,
                   [status |-> NextStatus(st, direction)], ok)

\* changeTaskStatus
changeTaskStatus(m, direction, ok) ==
    LET p == findTaskByID(m.tasks, m.cursorID)
    IN IF p = <<>> THEN m
       ELSE LET st == TaskAt(m.tasks, p).status
                willChange == IF direction > 0
                              THEN st = Todo \/ st = Active
                              ELSE st = Done \/ st = Active
                m1 == IF willChange THEN takeSnapshot(m) ELSE m
            IN modifyTaskByID(m1, m.cursorID,
                   [status |-> NextStatus(st, direction)], ok)

\* createTask inserting the sibling at the index of the current task, in
\* front of it
createTask_InsertsAtIndex(m, asSubtask, uuid) ==
    LET m1 == takeSnapshot(m)
        newTask == NewTask(uuid, "", Todo)
        atRoot == WriteTasks(m1, Append(m1.tasks, newTask))
    IN IF Len(m1.tasks) = 0 \/ m1.cursorID = NoID THEN atRoot
       ELSE IF asSubtask
       THEN LET p == findTaskByID(m1.tasks, m1.cursorID)
            IN IF p = <<>> THEN atRoot
               ELSE WriteTasks(m1,
                        SetTaskAt(m1.tasks, p,
                            [TaskAt(m1.tasks, p) EXCEPT
                                !.subtasks = Append(@, newTask)]))
       ELSE LET f == findParentTask(m1.tasks, m1.cursorID)
            IN IF f.index < 0 THEN atRoot
               ELSE WriteTasks(m1,
                        SetTaskContainer(m1.tasks, f.parent,
                            insertTaskInSlice(getTaskContainer(m1.tasks, f.parent),
                                              f.index, newTask)))

\* createTask; the result carries the new task's id in cursorID only after
\* the caller assigns it, so the id is passed in (uuid) and returned as is
createTask(m, asSubtask, uuid) ==
    LET m1 == takeSnapshot(m)
        newTask == NewTask(uuid, "", Todo)
        atRoot == WriteTasks(m1, Append(m1.tasks, newTask))
    IN IF Len(m1.tasks) = 0 \/ m1.cursorID = NoID THEN atRoot
       ELSE IF asSubtask
       THEN LET p == findTaskByID(m1.tasks, m1.cursorID)
            IN IF p = <<>> THEN atRoot
               ELSE WriteTasks(m1,
                        SetTaskAt(m1.tasks, p,
                            [TaskAt(m1.tasks, p) EXCEPT
                                !.subtasks = Append(@, newTask)]))
       ELSE LET f == findParentTask(m1.tasks, m1.cursorID)
            IN IF f.index < 0 THEN atRoot
               ELSE WriteTasks(m1,
                        SetTaskContainer(m1.tasks, f.parent,
                            insertTaskInSlice(getTaskContainer(m1.tasks, f.parent),
                                              f.index + 1, newTask)))

\* createNewTaskBelow
createNewTaskBelow(m, uuid) == createTask(m, FALSE, uuid)

\* createNewSubtask creating a sibling
createNewSubtask_AsSibling(m, uuid) == createTask(m, FALSE, uuid)

\* createNewSubtask
createNewSubtask(m, uuid) == createTask(m, TRUE, uuid)

\* createNewTaskInParent inserting the task in front of the parent
createNewTaskInParent_BeforeParent(m, uuid, ok) ==
    LET m1 == takeSnapshot(m)
        newTask == NewTask(uuid, "", Todo)
        atRoot == WriteTasks(m1, Append(m1.tasks, newTask))
    IN IF Len(m1.tasks) = 0 \/ m1.cursorID = NoID THEN atRoot
       ELSE LET f == findParentTask(m1.tasks, m1.cursorID)
            IN IF f.parent = <<>> THEN atRoot
               ELSE LET g == findParentTask(m1.tasks, TaskAt(m1.tasks, f.parent).id)
                    IN IF g.index < 0 THEN atRoot
                       ELSE autoSaveIfEnabled(
                              WriteTasks(m1,
                                 SetTaskContainer(m1.tasks, g.parent,
                                   insertTaskInSlice(
                                     getTaskContainer(m1.tasks, g.parent),
                                     g.index, newTask))),
                              ok)

\* createNewTaskInParent
createNewTaskInParent(m, uuid, ok) ==
    LET m1 == takeSnapshot(m)
        newTask == NewTask(uuid, "", Todo)
        atRoot == WriteTasks(m1, Append(m1.tasks, newTask))
    IN IF Len(m1.tasks) = 0 \/ m1.cursorID = NoID THEN atRoot
       ELSE LET f == findParentTask(m1.tasks, m1.cursorID)
            IN IF f.parent = <<>> THEN atRoot
               ELSE LET g == findParentTask(m1.tasks, TaskAt(m1.tasks, f.parent).id)
                    IN IF g.index < 0 THEN atRoot
                       ELSE autoSaveIfEnabled(
                              WriteTasks(m1,
                                 SetTaskContainer(m1.tasks, g.parent,
                                   insertTaskInSlice(
                                     getTaskContainer(m1.tasks, g.parent),
                                     g.index + 1, newTask))),
                              ok)

\* updateCursorAfterDeletion going back to the previous id without looking
\* it up
updateCursorAfterDeletion_Unchecked(m) ==
    IF m.previousID # NoID
    THEN [m EXCEPT !.cursorID = m.previousID, !.previousID = NoID]
    ELSE LET allIDs == getAllTaskIDs(m.tasks)
         IN [m EXCEPT !.cursorID = IF Len(allIDs) > 0 THEN allIDs[1] ELSE NoID,
                      !.previousID = NoID]

\* updateCursorAfterDeletion keeping the previous id it went back to
updateCursorAfterDeletion_KeepsPrevious(m) ==
    IF m.previousID # NoID /\ findTaskByID(m.tasks, m.previousID) # <<>>
    THEN [m EXCEPT !.cursorID = m.previousID]
    ELSE LET allIDs == getAllTaskIDs(m.tasks)
         IN [m EXCEPT !.cursorID = IF Len(allIDs) > 0 THEN allIDs[1] ELSE NoID,
                      !.previousID = NoID]

\* updateCursorAfterDeletion
updateCursorAfterDeletion(m) ==
    IF m.previousID # NoID /\ findTaskByID(m.tasks, m.previousID) # <<>>
    THEN [m EXCEPT !.cursorID = m.previousID, !.previousID = NoID]
    ELSE LET allIDs == getAllTaskIDs(m.tasks)
         IN [m EXCEPT !.cursorID = IF Len(allIDs) > 0 THEN allIDs[1] ELSE NoID,
                      !.previousID = NoID]

\* deleteCurrentTask without the snapshot before the removal
deleteCurrentTask_NoSnapshot(m, ok) ==
    LET f == findParentTask(m.tasks, m.cursorID)
    IN IF f.index < 0 THEN m
       ELSE LET m2 == WriteTasks(m,
                         SetTaskContainer(m.tasks, f.parent,
                           removeTaskFromSlice(getTaskContainer(m.tasks, f.parent),
                                               f.index)))
            IN autoSaveIfEnabled(updateCursorAfterDeletion(m2), ok)

\* deleteCurrentTask
deleteCurrentTask(m, ok) ==
    LET f == findParentTask(m.tasks, m.cursorID)
    IN IF f.index < 0 THEN m
       ELSE LET m1 == takeSnapshot(m)
                m2 == WriteTasks(m1,
                         SetTaskContainer(m1.tasks, f.parent,
                           removeTaskFromSlice(getTaskContainer(m1.tasks, f.parent),
                                               f.index)))
            IN autoSaveIfEnabled(updateCursorAfterDeletion(m2), ok)

\* exchange of the elements at 0-based indices i and j of a slice
SwapInSlice(slice, i, j) ==
    [slice EXCEPT ![i + 1] = slice[j + 1], ![j + 1] = slice[i + 1]]

\* moveTaskUp exchanging the task with the first task of its container
moveTaskUp_ToFront(m, ok) ==
    LET f == findParentTask(m.tasks, m.cursorID)
    IN IF f.index <= 0 THEN m
       ELSE LET m1 == takeSnapshot(m)
            IN autoSaveIfEnabled(
                 WriteTasks(m1,
                    SetTaskContainer(m1.tasks, f.parent,
                      SwapInSlice(getTaskContainer(m1.tasks, f.parent),
                                  f.index, 0))),
                 ok)

\* moveTaskUp
moveTaskUp(m, ok) ==
    LET f == findParentTask(m.tasks, m.cursorID)
    IN IF f.index <= 0 THEN m
       ELSE LET m1 == takeSnapshot(m)
            IN autoSaveIfEnabled(
                 WriteTasks(m1,
                    SetTaskContainer(m1.tasks, f.parent,
                      SwapInSlice(getTaskContainer(m1.tasks, f.parent),
                                  f.index, f.index - 1))),
                 ok)

\* moveTaskDown taking its snapshot before the boundary checks
moveTaskDown_SnapshotFirst(m, ok) ==
    LET f == findParentTask(m.tasks, m.cursorID)
        m1 == takeSnapshot(m)
    IN IF f.index < 0 THEN m1
       ELSE IF f.index >= Len(getTaskContainer(m.tasks, f.parent)) - 1 THEN m1
       ELSE autoSaveIfEnabled(
                 WriteTasks(m1,
                    SetTaskContainer(m1.tasks, f.parent,
                      SwapInSlice(getTaskContainer(m1.tasks, f.parent),
                                  f.index, f.index + 1))),
                 ok)

\* moveTaskDown exchanging the task with the last task of its container
moveTaskDown_ToEnd(m, ok) ==
    LET f == findParentTask(m.tasks, m.cursorID)
    IN IF f.index < 0 THEN m
       ELSE IF f.index >= Len(getTaskContainer(m.tasks, f.parent)) - 1 THEN m
       ELSE LET m1 == takeSnapshot(m)
            IN autoSaveIfEnabled(
                 WriteTasks(m1,
                    SetTaskContainer(m1.tasks, f.parent,
                      SwapInSlice(getTaskContainer(m1.tasks, f.parent),
                                  f.index,
                                  Len(getTaskContainer(m1.tasks, f.parent)) - 1))),
                 ok)

\* moveTaskDown
moveTaskDown(m, ok) ==
    LET f == findParentTask(m.tasks, m.cursorID)
    IN IF f.index < 0 THEN m
       ELSE IF f.index >= Len(getTaskContainer(m.tasks, f.parent)) - 1 THEN m
       ELSE LET m1 == takeSnapshot(m)
            IN autoSaveIfEnabled(
                 WriteTasks(m1,
                    SetTaskContainer(m1.tasks, f.parent,
                      SwapInSlice(getTaskContainer(m1.tasks, f.parent),
                                  f.index, f.index + 1))),
                 ok)

\* unindentTask putting the task at the end of the container of its
\* former parent
unindentTask_AtEnd(m, ok) ==
    LET f == findParentTask(m.tasks, m.cursorID)
    IN IF f.parent = <<>> THEN m
       ELSE LET m1 == takeSnapshot(m)
                parent == TaskAt(m1.tasks, f.parent)
                task == parent.subtasks[f.index + 1]
                ts1 == SetTaskContainer(m1.tasks, f.parent,
                           removeTaskFromSlice(parent.subtasks, f.index))
                g == findParentTask(ts1, parent.id)
                ts2 == SetTaskContainer(ts1, g.parent,
                           Append(getTaskContainer(ts1, g.parent), task))
            IN autoSaveIfEnabled(WriteTasks(m1, ts2), ok)

\* unindentTask putting the task in front of its former parent
unindentTask_BeforeParent(m, ok) ==
    LET f == findParentTask(m.tasks, m.cursorID)
    IN IF f.parent = <<>> THEN m
       ELSE LET m1 == takeSnapshot(m)
                parent == TaskAt(m1.tasks, f.parent)
                task == parent.subtasks[f.index + 1]
                ts1 == SetTaskContainer(m1.tasks, f.parent,
                           removeTaskFromSlice(parent.subtasks, f.index))
                g == findParentTask(ts1, parent.id)
                ts2 == SetTaskContainer(ts1, g.parent,
                           insertTaskInSlice(getTaskContainer(ts1, g.parent),
                                             g.index, task))
            IN autoSaveIfEnabled(WriteTasks(m1, ts2), ok)

\* unindentTask
unindentTask(m, ok) ==
    LET f == findParentTask(m.tasks, m.cursorID)
    IN IF f.parent = <<>> THEN m
       ELSE LET m1 == takeSnapshot(m)
                parent == TaskAt(m1.tasks, f.parent)
                task == parent.subtasks[f.index + 1]
                ts1 == SetTaskContainer(m1.tasks, f.parent,
                           removeTaskFromSlice(parent.subtasks, f.index))
                g == findParentTask(ts1, parent.id)
                ts2 == SetTaskContainer(ts1, g.parent,
                           insertTaskInSlice(getTaskContainer(ts1, g.parent),
                                             g.index + 1, task))
            IN autoSaveIfEnabled(WriteTasks(m1, ts2), ok)

\* indentTask putting the task in front of the last child of its previous
\* sibling
indentTask_BeforeLast(m, ok) ==
    LET f == findParentTask(m.tasks, m.cursorID)
    IN IF f.index <= 0 THEN m
       ELSE LET m1 == takeSnapshot(m)
                container == getTaskContainer(m1.tasks, f.parent)
                task == container[f.index + 1]
                removed == removeTaskFromSlice(container, f.index)
                kids == removed[f.index].subtasks
                moved == [removed EXCEPT ![f.index].subtasks =
                            IF kids = <<>> THEN <<task>>
                            ELSE SubSeq(kids, 1, Len(kids) - 1) \o <<task>>
                                 \o <<kids[Len(kids)]>>]
            IN autoSaveIfEnabled(
                 WriteTasks(m1, SetTaskContainer(m1.tasks, f.parent, moved)),
                 ok)

\* indentTask making the task the first child of its previous sibling
indentTask_Prepends(m, ok) ==
    LET f == findParentTask(m.tasks, m.cursorID)
    IN IF f.index <= 0 THEN m
       ELSE LET m1 == takeSnapshot(m)
                container == getTaskContainer(m1.tasks, f.parent)
                task == container[f.index + 1]
                removed == removeTaskFromSlice(container, f.index)
                moved == [removed EXCEPT ![f.index].subtasks = <<task>> \o @]
            IN autoSaveIfEnabled(
                 WriteTasks(m1, SetTaskContainer(m1.tasks, f.parent, moved)),
                 ok)

\* indentTask
indentTask(m, ok) ==
    LET f == findParentTask(m.tasks, m.cursorID)
    IN IF f.index <= 0 THEN m
       ELSE LET m1 == takeSnapshot(m)
                container == getTaskContainer(m1.tasks, f.parent)
                task == container[f.index + 1]
                removed == removeTaskFromSlice(container, f.index)
                moved == [removed EXCEPT ![f.index].subtasks = Append(@, task)]
            IN autoSaveIfEnabled(
                 WriteTasks(m1, SetTaskContainer(m1.tasks, f.parent, moved)),
                 ok)

\* undo saving the snapshot it restores, not the current state, for redo
undo_PushesRestored(m, ok) ==
    IF Len(m.undoStack) = 0 THEN m
    ELSE LET snapshot == m.undoStack[Len(m.undoStack)]
         IN autoSaveIfEnabled(
              [m EXCEPT !.redoStack = PushLimited(m.redoStack, snapshot),
                        !.undoStack = SubSeq(m.undoStack, 1, Len(m.undoStack) - 1),
                        !.tasks = snapshot.tasks,
                        !.store = snapshot.store,
                        !.cursorID = snapshot.cursorID,
                        !.previousID = snapshot.previousID],
              ok)

\* undo saving before it looks at the undo stack
undo_SavesWhenEmpty(m, ok) ==
    IF Len(m.undoStack) = 0 THEN autoSaveIfEnabled(m, ok)
    ELSE LET snapshot == m.undoStack[Len(m.undoStack)]
         IN autoSaveIfEnabled(
              [m EXCEPT !.redoStack = PushLimited(m.redoStack, ModelSnapshot(m)),
                        !.undoStack = SubSeq(m.undoStack, 1, Len(m.undoStack) - 1),
                        !.allocs = @ + 1,
                        !.tasks = snapshot.tasks,
                        !.store = snapshot.store,
                        !.cursorID = snapshot.cursorID,
                        !.previousID = snapshot.previousID],
              ok)

\* undo leaving the snapshot it restores on the undo stack
undo_KeepsEntry(m, ok) ==
    IF Len(m.undoStack) = 0 THEN m
    ELSE LET snapshot == m.undoStack[Len(m.undoStack)]
         IN autoSaveIfEnabled(
              [m EXCEPT !.redoStack = PushLimited(m.redoStack, ModelSnapshot(m)),
                        !.allocs = @ + 1,
                        !.tasks = snapshot.tasks,
                        !.store = snapshot.store,
                        !.cursorID = snapshot.cursorID,
                        !.previousID = snapshot.previousID],
              ok)

\* undo
undo(m, ok) ==
    IF Len(m.undoStack) = 0 THEN m
    ELSE LET snapshot == m.undoStack[Len(m.undoStack)]
         IN autoSaveIfEnabled(
              [m EXCEPT !.redoStack = PushLimited(m.redoStack, ModelSnapshot(m)),
                        !.undoStack = SubSeq(m.undoStack, 1, Len(m.undoStack) - 1),
                        !.allocs = @ + 1,
                        !.tasks = snapshot.tasks,
                        !.store = snapshot.store,
                        !.cursorID = snapshot.cursorID,
                        !.previousID = snapshot.previousID],
              ok)

\* redo leaving the snapshot it restores on the redo stack
redo_KeepsEntry(m, ok) ==
    IF Len(m.redoStack) = 0 THEN m
    ELSE LET snapshot == m.redoStack[Len(m.redoStack)]
         IN autoSaveIfEnabled(
              [m EXCEPT !.undoStack = PushLimited(m.undoStack, ModelSnapshot(m)),
                        !.allocs = @ + 1,
                        !.tasks = snapshot.tasks,
                        !.store = snapshot.store,
                        !.cursorID = snapshot.cursorID,
                        !.previousID = snapshot.previousID],
              ok)

\* redo
redo(m, ok) ==
    IF Len(m.redoStack) = 0 THEN m
    ELSE LET snapshot == m.redoStack[Len(m.redoStack)]
         IN autoSaveIfEnabled(
              [m EXCEPT !.undoStack = PushLimited(m.undoStack, ModelSnapshot(m)),
                        !.redoStack = SubSeq(m.redoStack, 1, Len(m.redoStack) - 1),
                        !.allocs = @ + 1,
                        !.tasks = snapshot.tasks,
                        !.store = snapshot.store,
                        !.cursorID = snapshot.cursorID,
                        !.previousID = snapshot.previousID],
              ok)

\* ---------------------------------------------------------------- clipboard
\* what clipboard.ReadAll can return: an error, or a text
ClipReads ==
    {[err |-> TRUE, content |-> ""]} \cup
    {[err |-> FALSE, content |-> c] : c \in {"", " ", " a "}}

\* strings.TrimSpace on the texts of ClipReads
TrimSpace(s) ==
    CASE s = " " -> ""
      [] s = " a " -> "a"
      [] OTHER -> s

\* copyCurrentTaskToClipboard; wok is the outcome of clipboard.WriteAll
copyCurrentTaskToClipboard(m, wok) ==
    IF findTaskByID(m.tasks, m.cursorID) = <<>>
    THEN setStatus(m, "No task selected to copy")
    ELSE IF ~wok THEN setError(m, "Failed to copy to clipboard")
    ELSE clearError(setStatus(m, "Task copied to clipboard"))

\* the body of the pastes testing the clipboard text without TrimSpace
pasteTask_NoTrim(m, asSubtask, clip, uuid, ok) ==
    IF clip.err THEN setError(m, "Failed to read from clipboard")
    ELSE IF clip.content = "" THEN setStatus(m, "Clipboard is empty")
    ELSE LET m1 == [m EXCEPT !.previousID = m.cursorID]
             m2 == createTask(m1, asSubtask, uuid)
             m3 == editTaskTitle(m2, uuid, TrimSpace(clip.content), ok)
             m4 == [m3 EXCEPT !.cursorID = uuid]
         IN clearError(setStatus(m4, IF asSubtask
                                     THEN "Subtask pasted from clipboard"
                                     ELSE "Task pasted from clipboard"))

\* the common body of pasteTaskFromClipboard and pasteTaskAsSubtask
pasteTask(m, asSubtask, clip, uuid, ok) ==
    IF clip.err THEN setError(m, "Failed to read from clipboard")
    ELSE IF TrimSpace(clip.content) = "" THEN setStatus(m, "Clipboard is empty")
    ELSE LET m1 == [m EXCEPT !.previousID = m.cursorID]
             m2 == createTask(m1, asSubtask, uuid)
             m3 == editTaskTitle(m2, uuid, TrimSpace(clip.content), ok)
             m4 == [m3 EXCEPT !.cursorID = uuid]
         IN clearError(setStatus(m4, IF asSubtask
                                     THEN "Subtask pasted from clipboard"
                                     ELSE "Task pasted from clipboard"))

\* pasteTaskFromClipboard
pasteTaskFromClipboard(m, clip, uuid, ok) == pasteTask(m, FALSE, clip, uuid, ok)

\* pasteTaskAsSubtask
pasteTaskAsSubtask(m, clip, uuid, ok) == pasteTask(m, TRUE, clip, uuid, ok)

\* ------------------------------------------------------------ key handlers
\* handleNormalMode, case "n"
keyNewTaskBelow(m, uuid) ==
    LET m1 == createNewTaskBelow([m EXCEPT !.previousID = m.cursorID], uuid)
    IN [m1 EXCEPT !.cursorID = uuid, !.editing = TRUE]

\* handleNormalMode, case "N"
keyNewSubtask(m, uuid) ==
    LET m1 == createNewSubtask([m EXCEPT !.previousID = m.cursorID], uuid)
    IN [m1 EXCEPT !.cursorID = uuid, !.editing = TRUE]

\* handleNormalMode, case "ctrl+n"
keyNewTaskInParent(m, uuid, ok) ==
    LET m1 == createNewTaskInParent([m EXCEPT !.previousID = m.cursorID], uuid, ok)
    IN [m1 EXCEPT !.cursorID = uuid, !.editing = TRUE]

\* handleEditingMode, case "enter"; text is textInput.Value()
keyCommitEdit(m, text, ok) ==
    [editTaskTitle(m, m.cursorID, text, ok) EXCEPT !.editing = FALSE]

\* handleEditingMode, case "shift+enter"
keyShiftEnter(m, text, uuid, ok) ==
    LET m1 == [m EXCEPT !.statusMessage = "Shift+Enter pressed - creating task below"]
        m2 == editTaskTitle(m1, m1.cursorID, text, ok)
        m3 == createNewTaskBelow([m2 EXCEPT !.previousID = m2.cursorID], uuid)
    IN [m3 EXCEPT !.cursorID = uuid]

\* handleEditingMode, case "ctrl+enter"
keyCtrlEnter(m, text, uuid, ok, ok2) ==
    LET m1 == [m EXCEPT !.statusMessage = "Ctrl+Enter pressed - creating task in parent"]
        m2 == editTaskTitle(m1, m1.cursorID, text, ok)
        m3 == createNewTaskInParent([m2 EXCEPT !.previousID = m2.cursorID], uuid, ok2)
    IN [m3 EXCEPT !.cursorID = uuid]

\* handleEditingMode, case "esc", deleting the task whatever its title
keyCancelEdit_AlwaysDeletes(m, ok) ==
    LET p == findTaskByID(m.tasks, m.cursorID)
        m1 == IF p # <<>> THEN deleteCurrentTask(m, ok) ELSE m
    IN [m1 EXCEPT !.editing = FALSE]

\* handleEditingMode, case "esc"
keyCancelEdit(m, ok) ==
    LET p == findTaskByID(m.tasks, m.cursorID)
        m1 == IF p # <<>> /\ TaskAt(m.tasks, p).title = ""
              THEN deleteCurrentTask(m, ok) ELSE m
    IN [m1 EXCEPT !.editing = FALSE]

\* handleNormalMode, case "esc"
keyEscNormal(m) == IF m.showError THEN clearError(m) ELSE m

\* ------------------------------------------------------------- bookkeeping
\* the three parts of the session a snapshot captures
Tri(m) == <<m.tasks, m.cursorID, m.previousID>>

\* the commands of the undo law: each records at most one snapshot
ListedCmds ==
    {"statusForward", "statusBackward", "moveUp", "moveDown", "indent",
     "unindent", "createSibling", "createChild", "createAuntUncle",
     "cancelEdit", "commitEdit"}

\* gBase is the session a run of recording commands started in, gN their
\* number, gU the undos and gR the redos issued after them, gPost the session
\* right after the last of the gN commands
Bookkeeping(cmd, r) ==
    IF cmd \in ListedCmds /\ r.snaps = 1
    THEN IF gU = 0 /\ gR = 0
         THEN /\ gBase' = gBase /\ gN' = gN + 1 /\ gU' = 0 /\ gR' = 0
              /\ gPost' = Tri(r)
         ELSE /\ gBase' = Tri(M) /\ gN' = 1 /\ gU' = 0 /\ gR' = 0
              /\ gPost' = Tri(r)
    ELSE IF cmd = "undo" /\ gN > 0 /\ gU < gN /\ gR = 0
    THEN /\ gU' = gU + 1 /\ UNCHANGED <<gBase, gPost, gN, gR>>
    ELSE IF cmd = "redo" /\ gN > 0 /\ gU = gN /\ gR < gN
    THEN /\ gR' = gR + 1 /\ UNCHANGED <<gBase, gPost, gN, gU>>
    ELSE IF Tri(r) = Tri(M) /\ r.undoStack = undoStack /\ r.redoStack = redoStack
    THEN UNCHANGED <<gBase, gPost, gN, gU, gR>>
    ELSE /\ gBase' = Tri(r) /\ gPost' = Tri(r)
         /\ gN' = 0 /\ gU' = 0 /\ gR' = 0

\* the list the file holds after the SaveTasks calls of a command:
\* saveTasksToFile hands ToTaskDataSlice(m.tasks) to storage.SaveTasks, and a
\* failed call leaves the file as it was; the file is followed in the runs
\* on a reliable disk
Written(data, saves) ==
    LET done == SelectSeq(saves, LAMBDA sv : sv.ok)
    IN IF done = <<>> THEN data
       ELSE ToTaskDataSlice(done[Len(done)].tasks)

\* one key press: the handler's result r becomes the session
Apply(cmd, r, uuids) ==
    /\ steps < limit
    /\ tasks' = r.tasks
    /\ cursorID' = r.cursorID
    /\ previousID' = r.previousID
    /\ editing' = r.editing
    /\ autoSave' = r.autoSave
    /\ lastError' = r.lastError
    /\ showError' = r.showError
    /\ statusMessage' = r.statusMessage
    /\ undoStack' = r.undoStack
    /\ redoStack' = r.redoStack
    /\ store' = r.store
    /\ allocs' = r.allocs
    /\ created' = created + uuids
    /\ steps' = steps + 1
    /\ limit' = limit
    /\ lastCmd' = cmd
    /\ lastSnaps' = r.snaps
    /\ lastSaves' = r.saves
    /\ pre' = M
    /\ reliableDisk => \A i \in 1..Len(r.saves) : r.saves[i].ok
    /\ taskData' = IF reliableDisk THEN Written(taskData, r.saves) ELSE taskData
    /\ reliableDisk' = reliableDisk
    /\ Bookkeeping(cmd, r)

\* ----------------------------------------------------------------- actions
SaveOutcomes == BOOLEAN
EditTexts == {"", "a"}

NavigateUp ==
    /\ ~editing
    /\ Apply("navigateUp",
             [M EXCEPT !.cursorID = getAdjacentTaskID(tasks, cursorID, -1)], 0)

NavigateDown ==
    /\ ~editing
    /\ Apply("navigateDown",
             [M EXCEPT !.cursorID = getAdjacentTaskID(tasks, cursorID, 1)], 0)

StatusBackward ==
    /\ ~editing
    /\ \E ok \in SaveOutcomes : Apply("statusBackward", changeTaskStatus(M, -1, ok), 0)

StatusForward ==
    /\ ~editing
    /\ \E ok \in SaveOutcomes : Apply("statusForward", changeTaskStatus(M, 1, ok), 0)

MoveUp ==
    /\ ~editing
    /\ \E ok \in SaveOutcomes : Apply("moveUp", moveTaskUp(M, ok), 0)

MoveDown ==
    /\ ~editing
    /\ \E ok \in SaveOutcomes : Apply("moveDown", moveTaskDown(M, ok), 0)

Unindent ==
    /\ ~editing
    /\ \E ok \in SaveOutcomes : Apply("unindent", unindentTask(M, ok), 0)

Indent ==
    /\ ~editing
    /\ \E ok \in SaveOutcomes : Apply("indent", indentTask(M, ok), 0)

CreateSibling ==
    /\ ~editing
    /\ created < MaxNewTasks
    /\ Apply("createSibling", keyNewTaskBelow(M, NewUUID(created + 1)), 1)

CreateChild ==
    /\ ~editing
    /\ created < MaxNewTasks
    /\ Apply("createChild", keyNewSubtask(M, NewUUID(created + 1)), 1)

CreateAuntUncle ==
    /\ ~editing
    /\ created < MaxNewTasks
    /\ \E ok \in SaveOutcomes :
         Apply("createAuntUncle", keyNewTaskInParent(M, NewUUID(created + 1), ok), 1)

Undo ==
    /\ ~editing
    /\ \E ok \in SaveOutcomes : Apply("undo", undo(M, ok), 0)

Redo ==
    /\ ~editing
    /\ \E ok \in SaveOutcomes : Apply("redo", redo(M, ok), 0)

Copy ==
    /\ ~editing
    /\ \E wok \in BOOLEAN : Apply("copy", copyCurrentTaskToClipboard(M, wok), 0)

Paste ==
    /\ ~editing
    /\ created < MaxNewTasks
    /\ \E clip \in ClipReads, ok \in SaveOutcomes :
         LET r == pasteTaskFromClipboard(M, clip, NewUUID(created + 1), ok)
         IN Apply("paste", r, IF r.snaps > 0 THEN 1 ELSE 0)

PasteAsChild ==
    /\ ~editing
    /\ created < MaxNewTasks
    /\ \E clip \in ClipReads, ok \in SaveOutcomes :
         LET r == pasteTaskAsSubtask(M, clip, NewUUID(created + 1), ok)
         IN Apply("pasteAsChild", r, IF r.snaps > 0 THEN 1 ELSE 0)

EnterEdit ==
    /\ ~editing
    /\ Apply("enterEdit", [M EXCEPT !.editing = TRUE], 0)

EscNormal ==
    /\ ~editing
    /\ Apply("escNormal", keyEscNormal(M), 0)

CommitEdit ==
    /\ editing
    /\ \E text \in EditTexts, ok \in SaveOutcomes :
         Apply("commitEdit", keyCommitEdit(M, text, ok), 0)

ShiftEnter ==
    /\ editing
    /\ created < MaxNewTasks
    /\ \E text \in EditTexts, ok \in SaveOutcomes :
         Apply("shiftEnter", keyShiftEnter(M, text, NewUUID(created + 1), ok), 1)

CtrlEnter ==
    /\ editing
    /\ created < MaxNewTasks
    /\ \E text \in EditTexts, ok \in SaveOutcomes, ok2 \in SaveOutcomes :
         Apply("ctrlEnter", keyCtrlEnter(M, text, NewUUID(created + 1), ok, ok2), 1)

CancelEdit ==
    /\ editing
    /\ \E ok \in SaveOutcomes : Apply("cancelEdit", keyCancelEdit(M, ok), 0)

\* ------------------------------------------------------------ construction
\* the title a loaded task with this id carries
InitTitle(id) ==
    CASE id = 1 -> "t1" [] id = 2 -> "t2" [] id = 3 -> "t3" [] OTHER -> "t4"

Leaf(id, status) == NewTaskWithID(id, InitTitle(id), status, <<>>)

\* forests a task file can hold (ids pairwise distinct)
InitForests ==
    { <<>>,
      <<Leaf(1, Todo)>>,
      <<Leaf(1, Todo), Leaf(2, Active),
        NewTaskWithID(3, InitTitle(3), Todo, <<Leaf(4, Todo)>>)>>,
      <<NewTaskWithID(1, InitTitle(1), Done, <<Leaf(2, Todo), Leaf(3, Active)>>)>>,
      <<NewTaskWithID(1, "", Todo, <<>>), Leaf(2, Active)>> }

\* NewModelWithFile with a file path: the loaded forest, or the empty forest
\* and an error when loading failed
Init ==
    /\ \E f \in InitForests, loadFailed \in BOOLEAN :
         /\ loadFailed => f = <<>>
         /\ tasks = f
         /\ lastError = IF loadFailed THEN "Failed to load tasks" ELSE ""
         /\ showError = loadFailed
    /\ cursorID = IF Len(tasks) > 0 THEN tasks[1].id ELSE NoID
    /\ previousID = NoID
    /\ editing = FALSE
    /\ autoSave = TRUE
    /\ statusMessage = ""
    /\ undoStack = <<>>
    /\ redoStack = <<>>
    /\ store = 0
    /\ allocs = 0
    /\ created = 0
    /\ steps = 0
    /\ limit = MaxSteps
    /\ lastCmd = "init"
    /\ lastSnaps = 0
    /\ lastSaves = <<>>
    /\ pre = M
    /\ taskData = NilSlice
    /\ reliableDisk = FALSE
    /\ gBase = Tri(M)
    /\ gPost = Tri(M)
    /\ gN = 0
    /\ gU = 0
    /\ gR = 0

Next ==
    \/ NavigateUp \/ NavigateDown
    \/ StatusBackward \/ StatusForward
    \/ MoveUp \/ MoveDown \/ Unindent \/ Indent
    \/ CreateSibling \/ CreateChild \/ CreateAuntUncle
    \/ Undo \/ Redo
    \/ Copy \/ Paste \/ PasteAsChild
    \/ EnterEdit \/ EscNormal
    \/ CommitEdit \/ ShiftEnter \/ CtrlEnter \/ CancelEdit

Spec == Init /\ [][Next]_vars

\* NewModelWithFile on a disk that takes every write: the file holds the
\* list the forest was loaded from, or nothing that parses when loading
\* failed
InitSaved ==
    /\ \E f \in InitForests, loadFailed \in BOOLEAN :
         /\ loadFailed => f = <<>>
         /\ tasks = f
         /\ lastError = IF loadFailed THEN "Failed to load tasks" ELSE ""
         /\ showError = loadFailed
    /\ cursorID = IF Len(tasks) > 0 THEN tasks[1].id ELSE NoID
    /\ previousID = NoID
    /\ editing = FALSE
    /\ autoSave = TRUE
    /\ statusMessage = ""
    /\ undoStack = <<>>
    /\ redoStack = <<>>
    /\ store = 0
    /\ allocs = 0
    /\ created = 0
    /\ steps = 0
    /\ limit = MaxSteps
    /\ lastCmd = "init"
    /\ lastSnaps = 0
    /\ lastSaves = <<>>
    /\ pre = M
    /\ taskData = IF showError THEN NilSlice ELSE ToTaskDataSlice(tasks)
    /\ reliableDisk = TRUE
    /\ gBase = Tri(M)
    /\ gPost = Tri(M)
    /\ gN = 0
    /\ gU = 0
    /\ gR = 0

SpecSaved == InitSaved /\ [][Next]_vars

\* NewModel as the tests use it: no file, so no auto-save, and the forest
\* assigned after construction
InitHistory ==
    /\ tasks = <<Leaf(1, Todo), Leaf(2, Active),
                 NewTaskWithID(3, InitTitle(3), Todo, <<Leaf(4, Todo)>>)>>
    /\ lastError = ""
    /\ showError = FALSE
    /\ cursorID = tasks[1].id
    /\ previousID = NoID
    /\ editing = FALSE
    /\ autoSave = FALSE
    /\ statusMessage = ""
    /\ undoStack = <<>>
    /\ redoStack = <<>>
    /\ store = 0
    /\ allocs = 0
    /\ created = 0
    /\ steps = 0
    /\ limit = MaxHistorySteps
    /\ lastCmd = "init"
    /\ lastSnaps = 0
    /\ lastSaves = <<>>
    /\ pre = M
    /\ taskData = NilSlice
    /\ reliableDisk = FALSE
    /\ gBase = Tri(M)
    /\ gPost = Tri(M)
    /\ gN = 0
    /\ gU = 0
    /\ gR = 0

\* the commands that record history one snapshot at a time, with undo, redo
\* and the cursor movement that selects their target
NextHistory ==
    \/ NavigateDown
    \/ StatusForward
    \/ MoveDown \/ Unindent \/ Indent
    \/ CreateSibling \/ CommitEdit \/ CancelEdit
    \/ Undo \/ Redo

SpecHistory == InitHistory /\ [][NextHistory]_vars

\* ------------------------------------------------- loading and saving
\* id, title and status of the task records explored
DataFields ==
    { [id |-> 1, title |-> "t1", status |-> Todo],
      [id |-> 2, title |-> "", status |-> Active],
      [id |-> 3, title |-> "t3", status |-> Done] }

\* the lists of task records with n records in all: DataElemsOf the element
\* sequences, DataSlicesOf the slices (the nil slice has no records),
\* DataRecordsOf the records with n records in their subtree
RECURSIVE DataElemsOf(_), DataSlicesOf(_), DataRecordsOf(_)
DataElemsOf(n) ==
    IF n = 0 THEN {<<>>}
    ELSE UNION { { <<t>> \o rest : t \in DataRecordsOf(k),
                                   rest \in DataElemsOf(n - k) } : k \in 1..n }
DataSlicesOf(n) ==
    {MakeSlice(e) : e \in DataElemsOf(n)} \cup (IF n = 0 THEN {NilSlice} ELSE {})
DataRecordsOf(n) ==
    { [id |-> f.id, title |-> f.title, status |-> f.status, subtasks |-> sub] :
        f \in DataFields, sub \in DataSlicesOf(n - 1) }

\* every []storage.TaskData of at most MaxDataRecords records
DataLists == UNION {DataSlicesOf(n) : n \in 0..MaxDataRecords}

\* the forests with n tasks in all, and the tasks with n tasks in their
\* subtree
RECURSIVE ForestsOf(_), TasksOf(_)
ForestsOf(n) ==
    IF n = 0 THEN {<<>>}
    ELSE UNION { { <<t>> \o rest : t \in TasksOf(k),
                                   rest \in ForestsOf(n - k) } : k \in 1..n }
TasksOf(n) ==
    { NewTaskWithID(f.id, f.title, f.status, sub) :
        f \in DataFields, sub \in ForestsOf(n - 1) }

\* every forest of at most MaxDataRecords tasks
Forests == UNION {ForestsOf(n) : n \in 0..MaxDataRecords}

\* a session holding a forest to save, or a decoded task file to load
InitConvert ==
    /\ \/ tasks \in Forests /\ taskData = MakeSlice(<<>>)
       \/ tasks = <<>> /\ taskData \in DataLists
    /\ reliableDisk = FALSE
    /\ lastError = ""
    /\ showError = FALSE
    /\ cursorID = IF Len(tasks) > 0 THEN tasks[1].id ELSE NoID
    /\ previousID = NoID
    /\ editing = FALSE
    /\ autoSave = TRUE
    /\ statusMessage = ""
    /\ undoStack = <<>>
    /\ redoStack = <<>>
    /\ store = 0
    /\ allocs = 0
    /\ created = 0
    /\ steps = 0
    /\ limit = MaxSteps
    /\ lastCmd = "init"
    /\ lastSnaps = 0
    /\ lastSaves = <<>>
    /\ pre = M
    /\ gBase = Tri(M)
    /\ gPost = Tri(M)
    /\ gN = 0
    /\ gU = 0
    /\ gR = 0

\* NewModelWithFile after storage.LoadTasks returned taskData:
\* loadTasksFromFile converts it, the cursor goes to the first task
Load ==
    /\ tasks' = FromTaskDataSlice(taskData)
    /\ cursorID' = IF Len(tasks') > 0 THEN tasks'[1].id ELSE NoID
    /\ previousID' = NoID
    /\ editing' = FALSE
    /\ autoSave' = TRUE
    /\ lastError' = ""
    /\ showError' = FALSE
    /\ undoStack' = <<>>
    /\ redoStack' = <<>>
    /\ lastCmd' = "load"
    /\ pre' = M
    /\ UNCHANGED <<taskData, reliableDisk, statusMessage, store, allocs, created, steps,
                   limit, lastSnaps, lastSaves, gBase, gPost, gN, gU, gR>>

\* saveTasksToFile up to the call of storage.SaveTasks: the forest is
\* converted into the list handed to the codec
Save ==
    /\ taskData' = ToTaskDataSlice(tasks)
    /\ lastCmd' = "save"
    /\ pre' = M
    /\ UNCHANGED <<tasks, cursorID, previousID, editing, autoSave, lastError,
                   showError, statusMessage, undoStack, redoStack, store,
                   allocs, created, steps, limit, lastSnaps, lastSaves,
                   reliableDisk, gBase, gPost, gN, gU, gR>>

NextConvert == Load \/ Save

SpecConvert == InitConvert /\ [][NextConvert]_vars

\* ------------------------------------------------------- forest vocabulary
\* the set of ids of a forest
IDSet(ts) == {getAllTaskIDs(ts)[i] : i \in 1..Len(getAllTaskIDs(ts))}

\* every container of a forest: the root list and each task's child list
RECURSIVE Containers(_)
Containers(ts) ==
    {ts} \cup UNION {Containers(ts[i].subtasks) : i \in 1..Len(ts)}

IsFirstInContainer(ts, id) ==
    \E c \in Containers(ts) : Len(c) > 0 /\ c[1].id = id
IsLastInContainer(ts, id) ==
    \E c \in Containers(ts) : Len(c) > 0 /\ c[Len(c)].id = id
IsRootLevel(ts, id) == \E i \in 1..Len(ts) : ts[i].id = id
Resolves(ts, id) == id \in IDSet(ts)

\* forest, cursor id, previous id and both stacks are as before the command
SessionUntouched ==
    /\ tasks = pre.tasks
    /\ cursorID = pre.cursorID
    /\ previousID = pre.previousID
    /\ undoStack = pre.undoStack
    /\ redoStack = pre.redoStack

\* ------------------------------------------------------------------ claims
\* C1: after N recording commands started in a session S (status change,
\* move, indent, unindent, the three creates, delete by cancelEdit, title
\* commit), N undos give back the forest, cursor id and previous id of S.
C1_UndoRestoresStart ==
    (gN > 0 /\ gU = gN /\ gR = 0) => <<tasks, cursorID, previousID>> = gBase

\* C2: a command whose precondition fails changes neither the forest, the
\* cursor id, the previous id nor either history stack: moveUp on the first
\* of a container, moveDown on the last, indent at index 0, unindent at root
\* level, and move/indent/unindent/delete with a cursor resolving to no task.
C2_FailedPreconditionIsNoOp ==
    LET ts == pre.tasks
        c == pre.cursorID
        fails ==
            \/ lastCmd = "moveUp" /\ IsFirstInContainer(ts, c)
            \/ lastCmd = "moveDown" /\ IsLastInContainer(ts, c)
            \/ lastCmd = "indent" /\ IsFirstInContainer(ts, c)
            \/ lastCmd = "unindent" /\ IsRootLevel(ts, c)
            \/ /\ lastCmd \in {"moveUp", "moveDown", "indent", "unindent", "cancelEdit"}
               /\ ~Resolves(ts, c)
    IN fails => SessionUntouched

\* a failed moveDown on the last task of a nested container, issued with
\* history on both stacks
C2_Witness ==
    /\ lastCmd = "moveDown"
    /\ IsLastInContainer(pre.tasks, pre.cursorID)
    /\ ~IsRootLevel(pre.tasks, pre.cursorID)
    /\ Len(pre.undoStack) > 0
    /\ Len(pre.redoStack) > 0
    /\ SessionUntouched

\* C3: a command that records a snapshot (other than undo/redo) leaves the
\* redo stack empty, so that a redo right after it changes nothing; a command
\* that records nothing leaves the redo stack as it was.
C3_LinearHistory ==
    lastCmd \notin {"init", "undo", "redo"} =>
        IF lastSnaps > 0
        THEN /\ redoStack = <<>>
             /\ \A ok \in BOOLEAN : redo(M, ok) = M
        ELSE redoStack = pre.redoStack

\* a recording command issued while the redo stack held a snapshot
C3_Witness ==
    /\ lastCmd \in ListedCmds
    /\ lastSnaps = 1
    /\ Len(pre.redoStack) > 0
    /\ redoStack = <<>>

\* C4: after N recording commands and N undos, N redos give back the forest,
\* cursor id and previous id that held right after the N-th command.
C4_RedoRestoresPost ==
    (gN > 0 /\ gU = gN /\ gR = gN) => <<tasks, cursorID, previousID>> = gPost

\* two commands, two undos and two redos have brought back a session that
\* differs from the one undone to
C4_Witness ==
    /\ gN >= 2 /\ gU = gN /\ gR = gN
    /\ lastCmd = "redo"
    /\ gPost # gBase
    /\ <<tasks, cursorID, previousID>> # <<pre.tasks, pre.cursorID, pre.previousID>>

\* the snapshots on both stacks
Entries(m) ==
    {m.undoStack[i] : i \in 1..Len(m.undoStack)} \cup
    {m.redoStack[i] : i \in 1..Len(m.redoStack)}

\* C5: a snapshot that stays on a stack keeps the forest, cursor id and
\* previous id it captured, whatever the command did to the live forest, also
\* when the live forest is one that undo or redo restored from a snapshot.
C5_SnapshotIndependence ==
    \A s \in Entries(pre) : \A t \in Entries(M) :
        s.store = t.store => t = s

\* a forest restored by undo or redo has been changed while an older snapshot
\* stayed on the undo stack
C5_Witness ==
    /\ lastCmd \in ListedCmds
    /\ lastSnaps = 1
    /\ pre.store # 0
    /\ tasks # pre.tasks
    /\ Len(pre.undoStack) > 0
    /\ \A i \in 1..Len(pre.undoStack) : undoStack[i] = pre.undoStack[i]

\* the last n entries of a sequence
LastN(n, seq) ==
    IF Len(seq) <= n THEN seq ELSE SubSeq(seq, Len(seq) - n + 1, Len(seq))

\* the entries of a stack allocated by the last command
Pushed(stack) ==
    SelectSeq(stack, LAMBDA e : e.store > pre.allocs)

\* C6: both stacks hold at most maxHistorySize snapshots, in push order; a
\* command's pushes go on top and only the oldest entries are dropped, as
\* many as exceed the cap.
C6_BoundedStacks ==
    /\ Len(undoStack) <= maxHistorySize
    /\ Len(redoStack) <= maxHistorySize
    /\ \A i, j \in 1..Len(undoStack) : i < j => undoStack[i].store < undoStack[j].store
    /\ \A i, j \in 1..Len(redoStack) : i < j => redoStack[i].store < redoStack[j].store
    /\ (lastCmd \notin {"init", "undo"} /\ allocs > pre.allocs) =>
         /\ Len(Pushed(undoStack)) >= 1
         /\ undoStack = LastN(maxHistorySize, pre.undoStack \o Pushed(undoStack))
    /\ (lastCmd = "undo" /\ allocs > pre.allocs) =>
         /\ Len(Pushed(redoStack)) = 1
         /\ redoStack = LastN(maxHistorySize, pre.redoStack \o Pushed(redoStack))

\* a push onto a full undo stack has dropped its oldest snapshot
C6_Witness ==
    /\ Len(pre.undoStack) = maxHistorySize
    /\ lastSnaps = 1
    /\ Len(undoStack) = maxHistorySize
    /\ undoStack[maxHistorySize].store > pre.allocs
    /\ \A i \in 1..(maxHistorySize - 1) : undoStack[i] = pre.undoStack[i + 1]
    /\ pre.undoStack[1] \notin Entries(M)

\* the (id, title, status) of every task of a forest
Triples(ts) ==
    {<<traverseTasks(ts)[i].id, traverseTasks(ts)[i].title, traverseTasks(ts)[i].status>> :
        i \in 1..Len(traverseTasks(ts))}

\* C7: the ids of the forest are pairwise distinct; moves, indent and
\* unindent keep every task's id, title and status; a title commit keeps every
\* id and status and a status change every id and title; the snapshots that
\* undo, redo and the recording commands push copy the forest with its ids, and
\* undo and redo make the popped copy the live forest.
C7_StableIdentity ==
    /\ Cardinality(IDSet(tasks)) = Len(getAllTaskIDs(tasks))
    /\ lastCmd \in {"moveUp", "moveDown", "indent", "unindent"} =>
         Triples(tasks) = Triples(pre.tasks)
    /\ lastCmd = "commitEdit" =>
         /\ {<<t[1], t[3]>> : t \in Triples(tasks)} =
            {<<t[1], t[3]>> : t \in Triples(pre.tasks)}
         /\ \A t \in Triples(pre.tasks) : t[1] # pre.cursorID => t \in Triples(tasks)
    /\ lastCmd \in {"statusForward", "statusBackward"} =>
         /\ {<<t[1], t[2]>> : t \in Triples(tasks)} =
            {<<t[1], t[2]>> : t \in Triples(pre.tasks)}
         /\ \A t \in Triples(pre.tasks) : t[1] # pre.cursorID => t \in Triples(tasks)
    /\ lastCmd \in ListedCmds \cup {"undo", "redo"} =>
         \A e \in Entries(M) : e.store > pre.allocs => e.tasks = pre.tasks
    /\ (lastCmd = "undo" /\ Len(pre.undoStack) > 0) =>
         tasks = pre.undoStack[Len(pre.undoStack)].tasks
    /\ (lastCmd = "redo" /\ Len(pre.redoStack) > 0) =>
         tasks = pre.redoStack[Len(pre.redoStack)].tasks

\* an undo has brought back a nested forest of four tasks of several statuses
C7_Witness ==
    /\ lastCmd = "undo"
    /\ Len(pre.undoStack) > 0
    /\ tasks # pre.tasks
    /\ Cardinality(IDSet(tasks)) >= 4
    /\ \E t \in Triples(tasks) : t[3] # Todo
    /\ \E i \in 1..Len(tasks) : tasks[i].subtasks # <<>>

\* C8: the cursor id is empty exactly when the forest is empty, and otherwise
\* is the id of a task of the forest.
C8_CursorNeverDangling ==
    /\ (cursorID = NoID) <=> (tasks = <<>>)
    /\ cursorID # NoID => Resolves(tasks, cursorID)

\* the last command was a cancelEdit that deleted the cursor task
Deleted ==
    /\ lastCmd = "cancelEdit"
    /\ \E t \in Triples(pre.tasks) : t[1] = pre.cursorID /\ t[2] = ""

\* C9: after a delete the cursor id is the id of a task of the forest, or is
\* empty and the forest is empty; it is never the id of a removed task.
C9_CursorAfterDelete ==
    Deleted =>
        /\ \/ Resolves(tasks, cursorID)
           \/ cursorID = NoID /\ tasks = <<>>
        /\ cursorID \notin (IDSet(pre.tasks) \ IDSet(tasks))

\* a delete whose previous id named a removed task, with tasks remaining
C9_Witness ==
    /\ Deleted
    /\ pre.previousID # NoID
    /\ pre.previousID \in (IDSet(pre.tasks) \ IDSet(tasks))
    /\ Cardinality(IDSet(pre.tasks) \ IDSet(tasks)) > 1
    /\ tasks # <<>>

\* C10: after a delete the cursor is the previous id when that is non-empty
\* and names a task of the resulting forest, otherwise the first id of the
\* pre-order sequence of the resulting forest, or empty when that forest is
\* empty; the previous id is empty afterwards.
C10_DeleteCursorPolicy ==
    Deleted =>
        /\ cursorID =
             IF pre.previousID # NoID /\ Resolves(tasks, pre.previousID)
             THEN pre.previousID
             ELSE IF tasks = <<>> THEN NoID ELSE getAllTaskIDs(tasks)[1]
        /\ previousID = NoID

\* a delete that returned the cursor to a previous id that is not the first
\* task of the forest
C10_Witness ==
    /\ Deleted
    /\ pre.previousID # NoID
    /\ cursorID = pre.previousID
    /\ cursorID # getAllTaskIDs(tasks)[1]
    /\ previousID = NoID

\* the task of a forest with the given id
ByID(ts, id) ==
    LET all == traverseTasks(ts)
    IN all[CHOOSE i \in 1..Len(all) : all[i].id = id]

\* the status of the cursor task before the last command
PreStatus == ByID(pre.tasks, pre.cursorID).status

\* three status changes forward from session m, then two undos
ThreeForward(m) ==
    changeTaskStatus(changeTaskStatus(changeTaskStatus(m, 1, TRUE), 1, FALSE), 1, TRUE)
TwoUndos(m) == undo(undo(m, TRUE), FALSE)

\* C11: a forward change on a Done cursor task and a backward change on a
\* Todo cursor task leave the forest as it was, push no snapshot and leave
\* both stacks alone; hence three forward changes from a Todo cursor task
\* leave it Done with two more undo entries (two in all from an empty
\* stack), and two undos then bring it back to Todo.
C11_StatusBoundaryIdempotent ==
    /\ ( /\ Resolves(pre.tasks, pre.cursorID)
         /\ \/ lastCmd = "statusForward" /\ PreStatus = Done
            \/ lastCmd = "statusBackward" /\ PreStatus = Todo )
       => /\ tasks = pre.tasks
          /\ lastSnaps = 0
          /\ undoStack = pre.undoStack
          /\ redoStack = pre.redoStack
    /\ ( /\ ~editing
         /\ Resolves(tasks, cursorID)
         /\ ByID(tasks, cursorID).status = Todo )
       => LET m3 == ThreeForward(M)
          IN /\ ByID(m3.tasks, cursorID).status = Done
             /\ m3.snaps = 2
             /\ undoStack = <<>> => Len(m3.undoStack) = 2
             /\ ByID(TwoUndos(m3).tasks, cursorID).status = Todo
             /\ TwoUndos(m3).tasks = tasks

\* a forward change on a Done task, issued with a snapshot on the redo stack
C11_Witness ==
    /\ lastCmd = "statusForward"
    /\ Resolves(pre.tasks, pre.cursorID)
    /\ PreStatus = Done
    /\ Len(pre.redoStack) > 0
    /\ redoStack = pre.redoStack
    /\ lastSnaps = 0

\* the forest ts with the status of the task with the given id replaced
RECURSIVE WithStatus(_, _, _)
WithStatus(ts, id, status) ==
    [i \in 1..Len(ts) |->
        IF ts[i].id = id THEN [ts[i] EXCEPT !.status = status]
        ELSE [ts[i] EXCEPT !.subtasks = WithStatus(@, id, status)]]

\* C12: a forward change takes the cursor task from Todo to Active, from
\* Active to Done and from Done to Done, a backward change from Done to
\* Active, from Active to Todo and from Todo to Todo; the result is one of the
\* three statuses, and nothing else in the forest changes.
C12_StatusMachine ==
    ( /\ lastCmd \in {"statusForward", "statusBackward"}
      /\ Resolves(pre.tasks, pre.cursorID) )
    => LET forward == [s \in {Todo, Active, Done} |->
                         IF s = Todo THEN Active ELSE Done]
           backward == [s \in {Todo, Active, Done} |->
                          IF s = Done THEN Active ELSE Todo]
           expected == IF lastCmd = "statusForward"
                       THEN forward[PreStatus] ELSE backward[PreStatus]
       IN /\ PreStatus \in {Todo, Active, Done}
          /\ ByID(tasks, pre.cursorID).status = expected
          /\ expected \in {Todo, Active, Done}
          /\ tasks = WithStatus(pre.tasks, pre.cursorID, expected)
          /\ cursorID = pre.cursorID

\* a backward change took a nested task with siblings from Active to Todo
C12_Witness ==
    /\ lastCmd = "statusBackward"
    /\ Resolves(pre.tasks, pre.cursorID)
    /\ ~IsRootLevel(pre.tasks, pre.cursorID)
    /\ PreStatus = Active
    /\ ByID(tasks, cursorID).status = Todo
    /\ Cardinality(IDSet(tasks)) >= 3

\* ---------------------------------------------------- structure vocabulary
\* the ids of a slice of tasks, in order
IDsOf(slice) == [i \in 1..Len(slice) |-> slice[i].id]

\* the ids of the children of the task pid, or of the root list for NoID
KidIDs(ts, pid) ==
    IF pid = NoID THEN IDsOf(ts) ELSE IDsOf(ByID(ts, pid).subtasks)

\* the id of the parent of a task, NoID for a root-level task
ParentID(ts, id) ==
    IF IsRootLevel(ts, id) THEN NoID
    ELSE CHOOSE p \in IDSet(ts) :
            \E i \in 1..Len(KidIDs(ts, p)) : KidIDs(ts, p)[i] = id

\* 1-based position of x in a sequence, the sequence without x, and the
\* sequence with y right after x
PosIn(seq, x) == CHOOSE i \in 1..Len(seq) : seq[i] = x
Without(seq, x) == SelectSeq(seq, LAMBDA y : y # x)
InsertAfter(seq, x, y) ==
    SubSeq(seq, 1, PosIn(seq, x)) \o <<y>> \o SubSeq(seq, PosIn(seq, x) + 1, Len(seq))

\* every child list other than those of the tasks in touched is as before
\* the command, and every task has its id, title and status
RestAsBefore(touched) ==
    /\ IDSet(tasks) = IDSet(pre.tasks)
    /\ Triples(tasks) = Triples(pre.tasks)
    /\ \A x \in (IDSet(pre.tasks) \cup {NoID}) \ touched :
          KidIDs(tasks, x) = KidIDs(pre.tasks, x)

\* the cursor task before the command was at an index > 0 of its container
PreIndentable ==
    /\ Resolves(pre.tasks, pre.cursorID)
    /\ ~IsFirstInContainer(pre.tasks, pre.cursorID)

\* C13: for a cursor task at an index > 0 of its container, indent followed
\* at once by unindent gives back the original forest, with the cursor still
\* on the task.
C13_IndentUnindentInverse ==
    /\ (lastCmd = "indent" /\ PreIndentable) =>
          /\ tasks # pre.tasks
          /\ \A ok \in SaveOutcomes :
                /\ unindentTask(M, ok).tasks = pre.tasks
                /\ unindentTask(M, ok).cursorID = pre.cursorID
    /\ (~editing /\ Resolves(tasks, cursorID) /\ ~IsFirstInContainer(tasks, cursorID)) =>
          \A ok \in SaveOutcomes :
             LET r == unindentTask(indentTask(M, ok), ok)
             IN /\ indentTask(M, ok).tasks # tasks
                /\ r.tasks = tasks
                /\ r.cursorID = cursorID

\* an unindent has undone the indent recorded just before it: the snapshot
\* on top of the undo stack is the forest before the indent, and it is the
\* live forest again
C13_Witness ==
    /\ lastCmd = "unindent"
    /\ Len(pre.undoStack) > 0
    /\ LET s == pre.undoStack[Len(pre.undoStack)]
           c == pre.cursorID
       IN /\ s.cursorID = c
          /\ Resolves(s.tasks, c)
          /\ ~IsFirstInContainer(s.tasks, c)
          /\ s.tasks # pre.tasks
          /\ indentTask([pre EXCEPT !.tasks = s.tasks], TRUE).tasks = pre.tasks
          /\ tasks = s.tasks
          /\ cursorID = c
          /\ PosIn(KidIDs(tasks, ParentID(tasks, c)), c) <
                Len(KidIDs(tasks, ParentID(tasks, c)))

\* C14: indent of a cursor task at index i > 0 of its container takes it out
\* of the container and makes it, with its subtree, the last child of the task
\* that was at index i-1, behind that task's children; the cursor id stays.
\* [T1, T2, T3[T3a]] with cursor T2 becomes [T1[T2], T3[T3a]].
C14_Indent ==
    /\ (lastCmd = "indent" /\ PreIndentable) =>
          LET c == pre.cursorID
              P == ParentID(pre.tasks, c)
              K == KidIDs(pre.tasks, P)
              sib == K[PosIn(K, c) - 1]
          IN /\ KidIDs(tasks, P) = Without(K, c)
             /\ KidIDs(tasks, sib) = Append(KidIDs(pre.tasks, sib), c)
             /\ RestAsBefore({P, sib})
             /\ cursorID = c
    /\ ( /\ lastCmd = "indent"
         /\ pre.cursorID = 2
         /\ pre.tasks = <<Leaf(1, Todo), Leaf(2, Active),
                          NewTaskWithID(3, InitTitle(3), Todo, <<Leaf(4, Todo)>>)>> )
       => /\ tasks = <<NewTaskWithID(1, InitTitle(1), Todo, <<Leaf(2, Active)>>),
                       NewTaskWithID(3, InitTitle(3), Todo, <<Leaf(4, Todo)>>)>>
          /\ cursorID = 2

\* an indent has put a task with a subtree behind the children its previous
\* sibling already had
C14_Witness ==
    /\ lastCmd = "indent"
    /\ PreIndentable
    /\ KidIDs(pre.tasks, pre.cursorID) # <<>>
    /\ KidIDs(pre.tasks, ParentID(tasks, cursorID)) # <<>>
    /\ KidIDs(tasks, cursorID) = KidIDs(pre.tasks, pre.cursorID)

\* C15: unindent of a cursor task with parent P at index p of P's container
\* takes it out of P's children and puts it, with its subtree, at index p+1
\* of P's container; the other children of P stay, in order, the tasks behind
\* P shift right by one, and the cursor id stays.
C15_Unindent ==
    ( /\ lastCmd = "unindent"
      /\ Resolves(pre.tasks, pre.cursorID)
      /\ ~IsRootLevel(pre.tasks, pre.cursorID) )
    => LET c == pre.cursorID
           P == ParentID(pre.tasks, c)
           G == ParentID(pre.tasks, P)
       IN /\ KidIDs(tasks, P) = Without(KidIDs(pre.tasks, P), c)
          /\ KidIDs(tasks, G) = InsertAfter(KidIDs(pre.tasks, G), P, c)
          /\ PosIn(KidIDs(tasks, G), c) = PosIn(KidIDs(pre.tasks, G), P) + 1
          /\ RestAsBefore({P, G})
          /\ cursorID = c

\* an unindent has left children with the former parent and has shifted a
\* task behind the parent to the right
C15_Witness ==
    /\ lastCmd = "unindent"
    /\ Resolves(pre.tasks, pre.cursorID)
    /\ ~IsRootLevel(pre.tasks, pre.cursorID)
    /\ KidIDs(tasks, ParentID(pre.tasks, pre.cursorID)) # <<>>
    /\ LET K == KidIDs(tasks, ParentID(tasks, cursorID))
       IN PosIn(K, cursorID) < Len(K)

\* a sequence with the elements at positions i and j exchanged
Exchanged(seq, i, j) == [seq EXCEPT ![i] = seq[j], ![j] = seq[i]]

\* the cursor task before the command could move up, could move down
PreCanMoveUp ==
    /\ Resolves(pre.tasks, pre.cursorID)
    /\ ~IsFirstInContainer(pre.tasks, pre.cursorID)
PreCanMoveDown ==
    /\ Resolves(pre.tasks, pre.cursorID)
    /\ ~IsLastInContainer(pre.tasks, pre.cursorID)

\* C16: moveUp (moveDown) exchanges the cursor task with the sibling right
\* before (after) it in the same container, each with its subtree, and
\* changes no other position; the task stays in its container: a first child
\* is not moved above its parent, a last child not out below it.
C16_MoveSwapsSiblings ==
    LET c == pre.cursorID
        P == ParentID(pre.tasks, c)
        K == KidIDs(pre.tasks, P)
        i == PosIn(K, c)
    IN /\ (lastCmd = "moveUp" /\ PreCanMoveUp) =>
             /\ KidIDs(tasks, P) = Exchanged(K, i, i - 1)
             /\ RestAsBefore({P})
             /\ ParentID(tasks, c) = P
             /\ cursorID = c
       /\ (lastCmd = "moveDown" /\ PreCanMoveDown) =>
             /\ KidIDs(tasks, P) = Exchanged(K, i, i + 1)
             /\ RestAsBefore({P})
             /\ ParentID(tasks, c) = P
             /\ cursorID = c
       /\ ( /\ Resolves(pre.tasks, c)
            /\ \/ lastCmd = "moveUp" /\ IsFirstInContainer(pre.tasks, c)
               \/ lastCmd = "moveDown" /\ IsLastInContainer(pre.tasks, c) )
          => tasks = pre.tasks

\* a moveUp has exchanged a task that has a subtree with the sibling before
\* it, in a container of three
C16_Witness ==
    /\ lastCmd = "moveUp"
    /\ PreCanMoveUp
    /\ KidIDs(pre.tasks, pre.cursorID) # <<>>
    /\ PosIn(KidIDs(pre.tasks, ParentID(pre.tasks, pre.cursorID)), pre.cursorID) = 3
    /\ PosIn(KidIDs(tasks, ParentID(tasks, cursorID)), cursorID) = 2
    /\ KidIDs(tasks, cursorID) = KidIDs(pre.tasks, pre.cursorID)

\* C17: for a cursor task that is not last in its container, moveDown
\* followed by moveUp gives back the original forest, and for one that is not
\* first, moveUp followed by moveDown does.
C17_MoveInverse ==
    /\ (lastCmd = "moveDown" /\ PreCanMoveDown) =>
          /\ tasks # pre.tasks
          /\ \A ok \in SaveOutcomes : moveTaskUp(M, ok).tasks = pre.tasks
    /\ (lastCmd = "moveUp" /\ PreCanMoveUp) =>
          /\ tasks # pre.tasks
          /\ \A ok \in SaveOutcomes : moveTaskDown(M, ok).tasks = pre.tasks
    /\ (~editing /\ Resolves(tasks, cursorID) /\ ~IsLastInContainer(tasks, cursorID)) =>
          \A ok \in SaveOutcomes :
             /\ moveTaskDown(M, ok).tasks # tasks
             /\ moveTaskUp(moveTaskDown(M, ok), ok).tasks = tasks
    /\ (~editing /\ Resolves(tasks, cursorID) /\ ~IsFirstInContainer(tasks, cursorID)) =>
          \A ok \in SaveOutcomes :
             /\ moveTaskUp(M, ok).tasks # tasks
             /\ moveTaskDown(moveTaskUp(M, ok), ok).tasks = tasks

\* a moveUp has undone the moveDown recorded just before it: the snapshot on
\* top of the undo stack is the forest before the moveDown, and it is the
\* live forest again
C17_Witness ==
    /\ lastCmd = "moveUp"
    /\ Len(pre.undoStack) > 0
    /\ LET s == pre.undoStack[Len(pre.undoStack)]
           c == pre.cursorID
       IN /\ s.cursorID = c
          /\ Resolves(s.tasks, c)
          /\ ~IsLastInContainer(s.tasks, c)
          /\ s.tasks # pre.tasks
          /\ moveTaskDown([pre EXCEPT !.tasks = s.tasks], TRUE).tasks = pre.tasks
          /\ tasks = s.tasks
          /\ Len(KidIDs(tasks, ParentID(tasks, c))) >= 3

\* the ids of a task and of all its descendants
SubtreeIDs(ts, id) == IDSet(<<ByID(ts, id)>>)

\* C18: delete removes the cursor task and its descendants and nothing else:
\* the ids afterwards are the ids before without that subtree, every remaining
\* task has its id, title and status, and every child list is the one before
\* without the removed task, in the same order.
C18_DeleteRemovesSubtree ==
    Deleted =>
        LET c == pre.cursorID
            gone == SubtreeIDs(pre.tasks, c)
        IN /\ IDSet(tasks) = IDSet(pre.tasks) \ gone
           /\ Triples(tasks) = {t \in Triples(pre.tasks) : t[1] \notin gone}
           /\ \A x \in IDSet(tasks) \cup {NoID} :
                 KidIDs(tasks, x) = Without(KidIDs(pre.tasks, x), c)

\* a delete has removed a task with a child, and a sibling behind it has
\* shifted left
C18_Witness ==
    /\ Deleted
    /\ Cardinality(SubtreeIDs(pre.tasks, pre.cursorID)) > 1
    /\ LET K == KidIDs(pre.tasks, ParentID(pre.tasks, pre.cursorID))
       IN PosIn(K, pre.cursorID) < Len(K)
    /\ tasks # <<>>

\* the ids the last command added to the forest, and the one added
NewIDs == IDSet(tasks) \ IDSet(pre.tasks)
NewID == CHOOSE n \in NewIDs : TRUE

\* the last command added exactly one task: fresh id, empty title, Todo, no
\* children; every other task has its id, title and status, and every child
\* list other than that of the task or root list `into` is as before
AddedOneTask(into) ==
    /\ Cardinality(NewIDs) = 1
    /\ IDSet(pre.tasks) \subseteq IDSet(tasks)
    /\ Cardinality(IDSet(tasks)) = Len(getAllTaskIDs(tasks))
    /\ ByID(tasks, NewID) = [id |-> NewID, title |-> "", status |-> Todo,
                             subtasks |-> <<>>]
    /\ Triples(tasks) = Triples(pre.tasks) \cup {<<NewID, "", Todo>>}
    /\ \A x \in (IDSet(pre.tasks) \cup {NoID}) \ {into} :
          KidIDs(tasks, x) = KidIDs(pre.tasks, x)

\* C19: createSibling puts a new task (fresh id, empty title, Todo, no
\* children) at index i+1 of the container that holds the cursor task at index
\* i, the later siblings shifting right; with an empty forest, an empty cursor
\* or a cursor id that names no task the new task becomes the last root-level
\* task; the new id becomes the cursor.
C19_CreateSibling ==
    lastCmd = "createSibling" =>
        LET c == pre.cursorID
            P == ParentID(pre.tasks, c)
        IN /\ IF Resolves(pre.tasks, c)
              THEN /\ AddedOneTask(P)
                   /\ KidIDs(tasks, P) = InsertAfter(KidIDs(pre.tasks, P), c, NewID)
                   /\ PosIn(KidIDs(tasks, P), NewID) = PosIn(KidIDs(pre.tasks, P), c) + 1
              ELSE /\ AddedOneTask(NoID)
                   /\ KidIDs(tasks, NoID) = Append(KidIDs(pre.tasks, NoID), NewID)
           /\ pre.tasks = <<>> => tasks = <<NewTask(NewID, "", Todo)>>
           /\ cursorID = NewID

\* a createSibling has put the new task between two children of a task
C19_Witness ==
    /\ lastCmd = "createSibling"
    /\ Resolves(pre.tasks, pre.cursorID)
    /\ ~IsRootLevel(pre.tasks, pre.cursorID)
    /\ ~IsLastInContainer(pre.tasks, pre.cursorID)
    /\ cursorID \in NewIDs
    /\ ~IsLastInContainer(tasks, cursorID)

\* C20: createChild appends a new task (fresh id, empty title, Todo) behind
\* the children of the cursor task, which keep their order; with a cursor id
\* that names no task, or an empty forest, the new task becomes the last
\* root-level task.
C20_CreateChild ==
    lastCmd = "createChild" =>
        LET c == pre.cursorID
        IN IF Resolves(pre.tasks, c)
           THEN /\ AddedOneTask(c)
                /\ KidIDs(tasks, c) = Append(KidIDs(pre.tasks, c), NewID)
           ELSE /\ AddedOneTask(NoID)
                /\ KidIDs(tasks, NoID) = Append(KidIDs(pre.tasks, NoID), NewID)

\* a createChild has put the new task behind two children of a task
C20_Witness ==
    /\ lastCmd = "createChild"
    /\ Resolves(pre.tasks, pre.cursorID)
    /\ Len(KidIDs(pre.tasks, pre.cursorID)) >= 2
    /\ Len(KidIDs(tasks, pre.cursorID)) = Len(KidIDs(pre.tasks, pre.cursorID)) + 1
    /\ cursorID \in NewIDs

\* C21: createAuntUncle on a root-level cursor task appends the new empty
\* Todo task at the end of the root list; on a cursor task with parent P at
\* index p of P's container it inserts the new task at index p+1 of that
\* container, right behind P and not inside P.
C21_CreateAuntUncle ==
    (lastCmd = "createAuntUncle" /\ Resolves(pre.tasks, pre.cursorID)) =>
        LET c == pre.cursorID
            P == ParentID(pre.tasks, c)
            G == ParentID(pre.tasks, P)
        IN /\ IF P = NoID
              THEN /\ AddedOneTask(NoID)
                   /\ KidIDs(tasks, NoID) = Append(KidIDs(pre.tasks, NoID), NewID)
              ELSE /\ AddedOneTask(G)
                   /\ KidIDs(tasks, G) = InsertAfter(KidIDs(pre.tasks, G), P, NewID)
                   /\ PosIn(KidIDs(tasks, G), NewID) = PosIn(KidIDs(pre.tasks, G), P) + 1
                   /\ KidIDs(tasks, P) = KidIDs(pre.tasks, P)
           /\ cursorID = NewID

\* a createAuntUncle on a nested task has put the new task between the
\* parent and the task behind the parent
C21_Witness ==
    /\ lastCmd = "createAuntUncle"
    /\ Resolves(pre.tasks, pre.cursorID)
    /\ ~IsRootLevel(pre.tasks, pre.cursorID)
    /\ cursorID \in NewIDs
    /\ ~IsLastInContainer(tasks, cursorID)
    /\ ~IsFirstInContainer(tasks, cursorID)

\* the forest ts with the title of the task with the given id replaced
RECURSIVE WithTitle(_, _, _)
WithTitle(ts, id, title) ==
    [i \in 1..Len(ts) |->
        IF ts[i].id = id THEN [ts[i] EXCEPT !.title = title]
        ELSE [ts[i] EXCEPT !.subtasks = WithTitle(@, id, title)]]

\* the result r of committing text in session m is as C22 says
CommitsTitle(m, text, r) ==
    /\ ~r.editing
    /\ r.cursorID = m.cursorID
    /\ IF Resolves(m.tasks, m.cursorID)
       THEN /\ r.tasks = WithTitle(m.tasks, m.cursorID, text)
            /\ ByID(r.tasks, m.cursorID).title = text
            /\ IF text # ByID(m.tasks, m.cursorID).title
               THEN /\ r.snaps = 1
                    /\ r.redoStack = <<>>
                    /\ Len(r.undoStack) > 0
                    /\ r.undoStack[Len(r.undoStack)].tasks = m.tasks
               ELSE /\ r.snaps = 0
                    /\ r.undoStack = m.undoStack
                    /\ r.redoStack = m.redoStack
       ELSE /\ r.tasks = m.tasks
            /\ r.snaps = 0
            /\ r.undoStack = m.undoStack
            /\ r.redoStack = m.redoStack

\* C22: commitEdit(text) sets the title of the cursor task to text, changes
\* no other task and leaves editing mode; it pushes a snapshot and clears the
\* redo stack if and only if text differs from the title the task had.
C22_CommitEdit ==
    /\ editing =>
          \A text \in EditTexts, ok \in SaveOutcomes :
             CommitsTitle(M, text, keyCommitEdit(M, text, ok))
    /\ lastCmd = "commitEdit" =>
          \E text \in EditTexts :
             CommitsTitle(pre, text,
                 [M EXCEPT !.snaps = lastSnaps])

\* a commit of the title the task already had, issued with a snapshot on the
\* redo stack, which is still there
C22_Witness ==
    /\ lastCmd = "commitEdit"
    /\ Resolves(pre.tasks, pre.cursorID)
    /\ tasks = pre.tasks
    /\ lastSnaps = 0
    /\ Len(pre.redoStack) > 0
    /\ redoStack = pre.redoStack
    /\ ~editing

\* C23: cancelEdit on a cursor task whose stored title is empty deletes the
\* task with its subtree the way delete does, cursor re-pointing and snapshot
\* included; with a non-empty stored title or a cursor naming no task the
\* forest, the cursor and both stacks stay; either way editing mode is left.
C23_CancelEdit ==
    lastCmd = "cancelEdit" =>
        /\ ~editing
        /\ IF Deleted
           THEN /\ \E ok \in SaveOutcomes :
                     LET r == deleteCurrentTask(pre, ok)
                     IN <<tasks, cursorID, previousID, undoStack, redoStack>> =
                        <<r.tasks, r.cursorID, r.previousID, r.undoStack, r.redoStack>>
                /\ lastSnaps = 1
                /\ redoStack = <<>>
                /\ undoStack[Len(undoStack)].tasks = pre.tasks
                /\ IDSet(tasks) = IDSet(pre.tasks) \ SubtreeIDs(pre.tasks, pre.cursorID)
                /\ previousID = NoID
           ELSE /\ SessionUntouched
                /\ lastSnaps = 0

\* a cancelEdit on a task just created, still without a title, has deleted it
\* and has gone back to the task the cursor came from
C23_Witness ==
    /\ lastCmd = "cancelEdit"
    /\ ~editing
    /\ Deleted
    /\ lastSnaps = 1
    /\ pre.cursorID \notin IDSet(tasks)
    /\ pre.previousID # NoID
    /\ cursorID = pre.previousID
    /\ Len(undoStack) = 2

\* the (forest, cursor id, previous id) a snapshot holds
SnapTri(s) == <<s.tasks, s.cursorID, s.previousID>>

\* one snapshot has moved: the stack `to` is toBefore with a snapshot of the
\* session before the command on top, the stack `from` is fromBefore without
\* its last entry, and that entry is the live session
MovedOne(from, fromBefore, to, toBefore) ==
    /\ Len(to) = Len(toBefore) + 1
    /\ SubSeq(to, 1, Len(toBefore)) = toBefore
    /\ SnapTri(to[Len(to)]) = Tri(pre)
    /\ from = SubSeq(fromBefore, 1, Len(fromBefore) - 1)
    /\ Tri(M) = SnapTri(fromBefore[Len(fromBefore)])

\* C24: undo with a non-empty undo stack moves exactly one snapshot: the redo
\* stack gains an entry equal to the live (forest, cursor id, previous id)
\* before the undo, the undo stack loses its last entry, and that entry
\* becomes the live (forest, cursor id, previous id); redo is the mirror image.
C24_UndoRedoMoveOne ==
    /\ (lastCmd = "undo" /\ Len(pre.undoStack) > 0) =>
          MovedOne(undoStack, pre.undoStack, redoStack, pre.redoStack)
    /\ (lastCmd = "redo" /\ Len(pre.redoStack) > 0) =>
          MovedOne(redoStack, pre.redoStack, undoStack, pre.undoStack)

\* a redo issued with entries on both stacks has changed the forest
C24_Witness ==
    /\ lastCmd = "redo"
    /\ Len(pre.redoStack) > 0
    /\ Len(pre.undoStack) > 0
    /\ tasks # pre.tasks
    /\ Len(undoStack) = Len(pre.undoStack) + 1

\* C25: undo with an empty undo stack and redo with an empty redo stack
\* change neither the forest, the cursor id, the previous id nor a stack,
\* issue no save and raise no error.
C25_EmptyHistoryNoOp ==
    ( \/ lastCmd = "undo" /\ pre.undoStack = <<>>
      \/ lastCmd = "redo" /\ pre.redoStack = <<>> )
    => /\ SessionUntouched
       /\ lastSaves = <<>>
       /\ lastSnaps = 0
       /\ lastError = pre.lastError
       /\ showError = pre.showError

\* an undo on an empty undo stack, with auto-save on, a snapshot on the redo
\* stack and the warning of an earlier failed save still shown
C25_Witness ==
    /\ lastCmd = "undo"
    /\ pre.undoStack = <<>>
    /\ pre.redoStack # <<>>
    /\ autoSave
    /\ pre.showError
    /\ showError
    /\ lastSaves = <<>>

\* the commands that can change the forest
ForestCmds ==
    {"createSibling", "createChild", "createAuntUncle", "cancelEdit",
     "moveUp", "moveDown", "indent", "unindent", "statusForward",
     "statusBackward", "commitEdit", "undo", "redo"}

\* C26: with persistence enabled, a command that has changed the forest has
\* issued a save of the resulting forest: createSibling, createChild,
\* createAuntUncle on each branch, delete, the moves, indent, unindent, status
\* change, title commit, undo and redo.
C26_SaveAfterEveryMutation ==
    (pre.autoSave /\ lastCmd \in ForestCmds /\ tasks # pre.tasks) =>
        /\ Len(lastSaves) > 0
        /\ lastSaves[Len(lastSaves)].tasks = tasks

\* the parts of a session a failed save must leave as the command made them
Result(m) == <<m.tasks, m.cursorID, m.previousID, m.undoStack, m.redoStack>>

\* the results of every command that can save, issued in the current
\* session, with the save succeeding (ok) or failing
CommandResults(ok) ==
    LET uuid == NewUUID(created + 1)
    IN IF editing
       THEN {Result(keyCancelEdit(M, ok))} \cup
            {Result(keyCommitEdit(M, text, ok)) : text \in EditTexts} \cup
            {Result(keyShiftEnter(M, text, uuid, ok)) : text \in EditTexts} \cup
            {Result(keyCtrlEnter(M, text, uuid, ok, ok)) : text \in EditTexts}
       ELSE {Result(changeTaskStatus(M, 1, ok)), Result(changeTaskStatus(M, -1, ok)),
             Result(moveTaskUp(M, ok)), Result(moveTaskDown(M, ok)),
             Result(indentTask(M, ok)), Result(unindentTask(M, ok)),
             Result(undo(M, ok)), Result(redo(M, ok)),
             Result(keyNewTaskInParent(M, uuid, ok))} \cup
            {Result(pasteTaskFromClipboard(M, clip, uuid, ok)) : clip \in ClipReads} \cup
            {Result(pasteTaskAsSubtask(M, clip, uuid, ok)) : clip \in ClipReads}

\* the last command issued a save, and its last save failed
LastSaveFailed == lastSaves # <<>> /\ ~lastSaves[Len(lastSaves)].ok

\* the forest, ids and stacks a command leaves do not depend on the outcome
\* of its save
NoRollback == CommandResults(TRUE) = CommandResults(FALSE)

\* C27: a failed save does not roll back or alter the result of a command:
\* forest, cursor id, previous id and both stacks are the same whether the
\* save succeeds or fails; only the error message and flag differ, which are
\* set when the save of the command failed.
C27_FailedSaveKeepsResult ==
    /\ NoRollback
    /\ LastSaveFailed => (showError /\ lastError = "Save failed")

\* C28: once a save has failed, the warning stays shown until a save
\* succeeds: a command without a successful save leaves it shown.
C28_WarningUntilSaved ==
    ( /\ pre.showError
      /\ pre.lastError = "Save failed"
      /\ \A i \in 1..Len(lastSaves) : ~lastSaves[i].ok )
    => showError

\* the commands that clear or replace the error themselves: esc in normal
\* mode dismisses it, copy and the two pastes end in clearError or setError
ErrorClearingCmds == {"escNormal", "copy", "paste", "pasteAsChild"}

\* C28 (amended): once a save has failed, the warning stays shown through
\* every command without a successful save, except the commands that clear
\* or replace the error themselves; a command whose last save succeeds
\* clears it.
C28_WarningUntilSavedOrDismissed ==
    /\ ( /\ pre.showError
         /\ pre.lastError = "Save failed"
         /\ lastCmd \notin ErrorClearingCmds
         /\ \A i \in 1..Len(lastSaves) : ~lastSaves[i].ok )
       => (showError /\ lastError = "Save failed")
    /\ ( /\ pre.showError
         /\ lastSaves # <<>>
         /\ lastSaves[Len(lastSaves)].ok )
       => ~showError

\* a save failed, and the next command, whose save failed too, left the
\* warning shown
C28_Witness ==
    /\ pre.showError
    /\ pre.lastError = "Save failed"
    /\ lastCmd = "moveDown"
    /\ LastSaveFailed
    /\ showError

\* ------------------------------------------------------- conversion claims
\* a list of task records with every nil list replaced by an empty one
RECURSIVE NonNil(_)
NonNil(data) ==
    MakeSlice([i \in 1..Len(data.elems) |->
                  [data.elems[i] EXCEPT !.subtasks = NonNil(@)]])

\* no list of the data is nil
NoNilList(data) == NonNil(data) = data

\* C29 (as stated): converting a forest to task records and back gives the
\* forest, and converting task records to a forest and back gives the
\* records, for every list of task records.
C29_RoundTrip ==
    /\ FromTaskDataSlice(ToTaskDataSlice(tasks)) = tasks
    /\ ToTaskDataSlice(FromTaskDataSlice(taskData)) = taskData

\* C29 (amended): converting a forest to task records and back gives the
\* forest; converting task records to a forest and back gives the records
\* with every nil list replaced by an empty list, so it gives the records
\* themselves when none of their lists is nil.
C29_RoundTripUpToNil ==
    /\ FromTaskDataSlice(ToTaskDataSlice(tasks)) = tasks
    /\ ToTaskDataSlice(FromTaskDataSlice(taskData)) = NonNil(taskData)
    /\ NoNilList(taskData) =>
         ToTaskDataSlice(FromTaskDataSlice(taskData)) = taskData
    /\ lastCmd = "load" => tasks = FromTaskDataSlice(taskData)
    /\ lastCmd = "save" => taskData = ToTaskDataSlice(tasks)

\* a task file with a nested record and no nil list was loaded, and saving
\* the forest gives the records of the file
C29_Witness ==
    /\ lastCmd = "load"
    /\ NoNilList(taskData)
    /\ Len(tasks) > 0
    /\ tasks[1].subtasks # <<>>
    /\ ToTaskDataSlice(tasks) = taskData

\* ------------------------------------------------------------ blank paste
\* the clipboard reads with blank or whitespace-only text
BlankReads == {clip \in ClipReads : ~clip.err /\ TrimSpace(clip.content) = ""}

\* the outcomes of paste and pasteAsChild in the current session with a
\* blank clipboard
BlankPastes ==
    LET uuid == NewUUID(created + 1)
    IN {pasteTaskFromClipboard(M, clip, uuid, ok) :
            clip \in BlankReads, ok \in SaveOutcomes} \cup
       {pasteTaskAsSubtask(M, clip, uuid, ok) :
            clip \in BlankReads, ok \in SaveOutcomes}

RECURSIVE PathsFrom(_, _)
PathsFrom(ts, prefix) ==
    UNION { {Append(prefix, i)} \cup PathsFrom(ts[i].subtasks, Append(prefix, i)) :
              i \in 1..Len(ts) }
Paths(ts) == PathsFrom(ts, <<>>)

\* p is a proper ancestor of q
IsAncestor(p, q) == Len(p) < Len(q) /\ SubSeq(q, 1, Len(p)) = p

\* p comes before q in pre-order: p is an ancestor of q, or at the first
\* index where they differ p is the earlier sibling
ComesBefore(p, q) ==
    \/ IsAncestor(p, q)
    \/ \E k \in 1..Len(p) :
          /\ k <= Len(q)
          /\ SubSeq(p, 1, k - 1) = SubSeq(q, 1, k - 1)
          /\ p[k] < q[k]

\* the ids of a forest listed by ComesBefore
PreOrderIDs(ts) ==
    [n \in 1..Cardinality(Paths(ts)) |->
        TaskAt(ts, CHOOSE p \in Paths(ts) :
                      Cardinality({q \in Paths(ts) : ComesBefore(q, p)}) = n - 1).id]

\* the places of an id in a sequence of ids
Places(seq, id) == {i \in 1..Len(seq) : seq[i] = id}

\* C31: navigation sets the cursor to the id right after (down) or right
\* before (up) the cursor in the pre-order id sequence, leaves it where it
\* is at the last or first id and when it resolves to no task, and changes
\* neither the forest nor the previous id nor a history stack, records no
\* snapshot and issues no save.
C31_NavigationNeverWraps ==
    lastCmd \in {"navigateUp", "navigateDown"} =>
        LET seq == PreOrderIDs(pre.tasks)
            at == Places(seq, pre.cursorID)
            d == IF lastCmd = "navigateDown" THEN 1 ELSE -1
        IN /\ Cardinality(at) <= 1
           /\ \A i \in at :
                 cursorID = IF i + d \in 1..Len(seq) THEN seq[i + d]
                            ELSE pre.cursorID
           /\ at = {} => cursorID = pre.cursorID
           /\ tasks = pre.tasks
           /\ previousID = pre.previousID
           /\ undoStack = pre.undoStack
           /\ redoStack = pre.redoStack
           /\ lastSnaps = 0
           /\ lastSaves = <<>>

\* navigate down on the last id of a forest with a nested task: the cursor
\* stays
C31_Witness ==
    /\ lastCmd = "navigateDown"
    /\ Len(PreOrderIDs(pre.tasks)) >= 3
    /\ PreOrderIDs(pre.tasks)[Len(PreOrderIDs(pre.tasks))] = pre.cursorID
    /\ ~IsRootLevel(pre.tasks, pre.cursorID)
    /\ cursorID = pre.cursorID

\* the place of the task at position p in the pre-order of a forest
Place(ts, p) == 1 + Cardinality({q \in Paths(ts) : ComesBefore(q, p)})

\* the commands that assign nothing to the forest
ReadOnlyCmds == {"navigateUp", "navigateDown", "copy", "enterEdit", "escNormal"}

\* C32: getAllTaskIDs lists the id of every task exactly once (one entry per
\* task, and no id twice), each task after its parent and after the sibling
\* stored before it, hence before all its descendants and later siblings,
\* and gives the same sequence again when no command has changed the forest
\* in between.
C32_PreOrderIDs ==
    LET ids == getAllTaskIDs(tasks)
        ps == Paths(tasks)
    IN /\ Len(ids) = Cardinality(ps)
       /\ \A p \in ps : ids[Place(tasks, p)] = TaskAt(tasks, p).id
       /\ \A p \in ps :
             /\ Len(p) > 1 =>
                   Place(tasks, SubSeq(p, 1, Len(p) - 1)) < Place(tasks, p)
             /\ p[Len(p)] > 1 =>
                   Place(tasks, [p EXCEPT ![Len(p)] = @ - 1]) < Place(tasks, p)
       /\ \A p \in ps : Cardinality(Places(ids, TaskAt(tasks, p).id)) = 1
       /\ lastCmd \in ReadOnlyCmds => ids = getAllTaskIDs(pre.tasks)

\* after an indent the forest has a task with two children followed by a
\* later root-level task, and the id list has the children between them
C32_Witness ==
    /\ lastCmd = "indent"
    /\ Len(tasks) >= 2
    /\ Len(tasks[1].subtasks) >= 2
    /\ getAllTaskIDs(tasks)[3] = tasks[1].subtasks[2].id
    /\ getAllTaskIDs(tasks)[4] = tasks[2].id

\* ------------------------------------------------- snapshot, mutate, save
\* C33: the snapshot a command records first holds the forest, cursor id and
\* previous id of the session before the command began, and the last save
\* of a command writes the forest the command ends with.
C33_SnapshotBeforeMutation ==
    (lastCmd \notin {"init", "undo", "redo"}) =>
        /\ Pushed(undoStack) # <<>> =>
               SnapTri(Pushed(undoStack)[1]) = Tri(pre)
        /\ lastSaves # <<>> => lastSaves[Len(lastSaves)].tasks = tasks

\* the commands that change the forest and record history, the two pastes
\* included
RecordingCmds == ListedCmds \cup {"paste", "pasteAsChild"}

\* C34: a recording command that has changed the forest has pushed exactly
\* one snapshot, and a single undo gives back the forest and the cursor id
\* of before the command.
C34_OneSnapshotPerCommand ==
    (lastCmd \in RecordingCmds /\ tasks # pre.tasks) =>
        /\ lastSnaps = 1
        /\ \A ok \in SaveOutcomes :
              /\ undo(M, ok).tasks = pre.tasks
              /\ undo(M, ok).cursorID = pre.cursorID

\* the last command found nothing to change: a status change at the end of
\* the status order, or a commit of the title the task already had
ChangedNothing ==
    /\ Resolves(pre.tasks, pre.cursorID)
    /\ \/ lastCmd = "statusForward" /\ PreStatus = Done
       \/ lastCmd = "statusBackward" /\ PreStatus = Todo
       \/ lastCmd = "commitEdit" /\ lastSnaps = 0

\* C35: a command that changes nothing leaves forest, cursor id, previous id
\* and both stacks as they were, issues no save and leaves the error message
\* and the error flag as they were.
C35_NoChangeNoSave ==
    ChangedNothing =>
        /\ SessionUntouched
        /\ lastSaves = <<>>
        /\ lastError = pre.lastError
        /\ showError = pre.showError

\* --------------------------------------------------------------- relocation
\* the containers (NoID for the root list) whose child sequence the last
\* command changed
ChangedContainers ==
    {x \in IDSet(pre.tasks) \cup {NoID} : KidIDs(tasks, x) # KidIDs(pre.tasks, x)}

\* the ids of a sequence
Range(seq) == {seq[i] : i \in 1..Len(seq)}

\* C36: moveUp, moveDown, indent and unindent keep the set of ids and the
\* number of tasks, and every task's title and status; a move changes at
\* most one container, which keeps its children in another order; indent
\* and unindent change none or two containers, one losing exactly the
\* cursor task and the other gaining exactly it; every other container,
\* the moved task's own included, has the child sequence it had.
C36_RelocateOnly ==
    lastCmd \in {"moveUp", "moveDown", "indent", "unindent"} =>
        LET c == pre.cursorID
            ch == ChangedContainers
        IN /\ IDSet(tasks) = IDSet(pre.tasks)
           /\ Len(getAllTaskIDs(tasks)) = Len(getAllTaskIDs(pre.tasks))
           /\ Triples(tasks) = Triples(pre.tasks)
           /\ c \notin ch
           /\ lastCmd \in {"moveUp", "moveDown"} =>
                 /\ Cardinality(ch) <= 1
                 /\ \A x \in ch :
                       /\ Range(KidIDs(tasks, x)) = Range(KidIDs(pre.tasks, x))
                       /\ Without(KidIDs(tasks, x), c) = Without(KidIDs(pre.tasks, x), c)
           /\ lastCmd \in {"indent", "unindent"} =>
                 /\ Cardinality(ch) \in {0, 2}
                 /\ \A x \in ch :
                       /\ Without(KidIDs(tasks, x), c) = Without(KidIDs(pre.tasks, x), c)
                       /\ Len(KidIDs(tasks, x)) # Len(KidIDs(pre.tasks, x))
                 /\ ch # {} =>
                       \E x, y \in ch :
                          /\ x # y
                          /\ Len(KidIDs(tasks, x)) = Len(KidIDs(pre.tasks, x)) - 1
                          /\ Len(KidIDs(tasks, y)) = Len(KidIDs(pre.tasks, y)) + 1

\* an unindent has taken a task out of a parent that keeps another child,
\* and put it into the outer container
C36_Witness ==
    /\ lastCmd = "unindent"
    /\ Cardinality(ChangedContainers) = 2
    /\ KidIDs(tasks, ParentID(pre.tasks, pre.cursorID)) # <<>>
    /\ pre.cursorID \in Range(KidIDs(tasks, ParentID(tasks, pre.cursorID)))

\* ------------------------------------------------------------ history size
\* C37: the undo stack and the redo stack together hold at most
\* maxHistorySize snapshots; so the push of undo onto the redo stack and the
\* push of redo onto the undo stack stay within the cap, and undo and redo
\* drop no entry: the stack pushed to is the one before with one snapshot
\* on top.
C37_HistorySum ==
    /\ Len(undoStack) + Len(redoStack) <= maxHistorySize
    /\ undoStack # <<>> => Len(redoStack) + 1 <= maxHistorySize
    /\ redoStack # <<>> => Len(undoStack) + 1 <= maxHistorySize
    /\ (lastCmd = "undo" /\ pre.undoStack # <<>>) =>
          /\ Len(redoStack) = Len(pre.redoStack) + 1
          /\ SubSeq(redoStack, 1, Len(pre.redoStack)) = pre.redoStack
    /\ (lastCmd = "redo" /\ pre.redoStack # <<>>) =>
          /\ Len(undoStack) = Len(pre.undoStack) + 1
          /\ SubSeq(undoStack, 1, Len(pre.undoStack)) = pre.undoStack

\* an undo issued with both stacks holding snapshots has filled the redo
\* stack up to the cap, and nothing was dropped
C37_Witness ==
    /\ lastCmd = "undo"
    /\ pre.redoStack # <<>>
    /\ Len(pre.undoStack) + Len(pre.redoStack) = maxHistorySize
    /\ Len(redoStack) = maxHistorySize
    /\ SubSeq(redoStack, 1, Len(pre.redoStack)) = pre.redoStack

\* ------------------------------------------------------------ file in step
\* the commands that create a task and leave the session in editing mode
CreateCmds ==
    {"createSibling", "createChild", "createAuntUncle", "shiftEnter", "ctrlEnter"}

\* C38: with persistence enabled and every save succeeding, the forest of
\* the file (last loaded or written) is the forest in memory whenever the
\* session is in normal mode; the states where it is not are in editing
\* mode right after a create, and a commit or cancel that changes the forest
\* issues a save of it.
C38_FileFollowsForest ==
    /\ (autoSave /\ ~editing) =>
          FromTaskDataSlice(taskData) = tasks
    /\ (autoSave /\ FromTaskDataSlice(taskData) # tasks) =>
          (editing /\ lastCmd \in CreateCmds)
    /\ (autoSave /\ lastCmd \in {"commitEdit", "cancelEdit"} /\ tasks # pre.tasks) =>
          /\ lastSaves # <<>>
          /\ lastSaves[Len(lastSaves)].tasks = tasks

\* a task was created and its title committed with every save succeeding:
\* the file holds the forest with the new task
C38_Witness ==
    /\ autoSave
    /\ reliableDisk
    /\ lastCmd = "commitEdit"
    /\ cursorID > MaxInitTasks
    /\ Resolves(tasks, cursorID)
    /\ ByID(tasks, cursorID).title = "a"
    /\ FromTaskDataSlice(taskData) = tasks

\* --------------------------------------------------------- abandoned create
\* the sessions after createSibling, createChild or createAuntUncle issued in
\* the current session and cancelEdit right after it
AbandonedCreates ==
    LET uuid == NewUUID(created + 1)
    IN {keyCancelEdit(keyNewTaskBelow(M, uuid), ok) : ok \in SaveOutcomes} \cup
       {keyCancelEdit(keyNewSubtask(M, uuid), ok) : ok \in SaveOutcomes} \cup
       {keyCancelEdit(keyNewTaskInParent(M, uuid, ok), ok) : ok \in SaveOutcomes}

\* C39 (as stated): a create followed at once by cancelEdit leaves the
\* forest and the cursor id as before the create and the previous id empty,
\* the undo stack two entries longer and the redo stack empty.
C39_AbandonedCreate ==
    ~editing =>
        \A r \in AbandonedCreates :
            /\ r.tasks = tasks
            /\ r.cursorID = cursorID
            /\ r.previousID = NoID
            /\ Len(r.undoStack) = Len(undoStack) + 2
            /\ r.redoStack = <<>>

\* the cursor an abandoned create leaves: the one before the create when it
\* resolved to a task, otherwise the first task in pre-order, or no cursor
\* in an empty forest
CursorAfterAbandon ==
    IF Resolves(tasks, cursorID) THEN cursorID
    ELSE IF tasks = <<>> THEN NoID
    ELSE getAllTaskIDs(tasks)[1]

\* C39 (amended): a create followed at once by cancelEdit leaves the forest
\* as before the create, the cursor id as before the create when it
\* resolved to a task (otherwise on the first task, or empty in an empty
\* forest) and the previous id empty; two snapshots were pushed, the one of
\* the create holding the forest of before and the one of the delete the
\* forest with the new task, on top of the entries the undo stack had, of
\* which the oldest are dropped beyond maxHistorySize; the redo stack is
\* empty.
C39_AbandonedCreateCapped ==
    ~editing =>
        \A r \in AbandonedCreates :
            LET n == Len(r.undoStack)
            IN /\ r.tasks = tasks
               /\ r.cursorID = CursorAfterAbandon
               /\ r.previousID = NoID
               /\ ~r.editing
               /\ r.snaps = 2
               /\ n = IF Len(undoStack) + 2 <= maxHistorySize
                      THEN Len(undoStack) + 2 ELSE maxHistorySize
               /\ r.undoStack[n - 1].tasks = tasks
               /\ r.undoStack[n].tasks # tasks
               /\ SubSeq(r.undoStack, 1, n - 2) = LastN(n - 2, undoStack)
               /\ r.redoStack = <<>>

\* a created task was cancelled at once: the forest is the one the create's
\* snapshot holds, the cursor is back on the task it was on, and the undo
\* stack holds the two snapshots
C39_Witness ==
    /\ lastCmd = "cancelEdit"
    /\ lastSnaps = 1
    /\ pre.cursorID > MaxInitTasks
    /\ Len(undoStack) = 2
    /\ undoStack[2].tasks = pre.tasks
    /\ undoStack[1].tasks = tasks
    /\ tasks # <<>>
    /\ cursorID = pre.previousID
    /\ previousID = NoID
    /\ redoStack = <<>>

\* ------------------------------------------------------ unindent, indent
\* the session m after unindent and then indent of its cursor task c, a
\* child of P whose children were K: c is the last child of P behind the
\* other children in their order, every other child list is as it was, the
\* cursor is on c, and the forest is the one of m exactly when c was the
\* last child
BackAsLastChild(m, r) ==
    LET c == m.cursorID
        P == ParentID(m.tasks, c)
        K == KidIDs(m.tasks, P)
    IN /\ KidIDs(r.tasks, P) = Append(Without(K, c), c)
       /\ \A x \in (IDSet(m.tasks) \cup {NoID}) \ {P} :
             KidIDs(r.tasks, x) = KidIDs(m.tasks, x)
       /\ Triples(r.tasks) = Triples(m.tasks)
       /\ r.cursorID = c
       /\ (r.tasks = m.tasks) <=> (K[Len(K)] = c)
       /\ K[Len(K)] # c =>
             PosIn(KidIDs(r.tasks, P), c) > PosIn(K, c)

\* C40: unindent followed at once by indent of the same task makes it the
\* last child of its original parent: the forest is the original one if and
\* only if the task was the last child, otherwise the task stands behind
\* its former later siblings.
C40_UnindentIndent ==
    /\ (~editing /\ Resolves(tasks, cursorID) /\ ~IsRootLevel(tasks, cursorID)) =>
          \A ok \in SaveOutcomes :
             /\ unindentTask(M, ok).tasks # tasks
             /\ BackAsLastChild(M, indentTask(unindentTask(M, ok), ok))
    /\ ( /\ lastCmd = "unindent"
         /\ Resolves(pre.tasks, pre.cursorID)
         /\ ~IsRootLevel(pre.tasks, pre.cursorID) )
       => \A ok \in SaveOutcomes : BackAsLastChild(pre, indentTask(M, ok))

\* an indent right after the unindent of a task that had a later sibling:
\* the task is now the last child of its parent, behind that sibling
C40_Witness ==
    /\ lastCmd = "indent"
    /\ Len(pre.undoStack) > 0
    /\ LET s == pre.undoStack[Len(pre.undoStack)]
           c == pre.cursorID
       IN /\ s.cursorID = c
          /\ Resolves(s.tasks, c)
          /\ ~IsRootLevel(s.tasks, c)
          /\ unindentTask([pre EXCEPT !.tasks = s.tasks], TRUE).tasks = pre.tasks
          /\ KidIDs(s.tasks, ParentID(s.tasks, c))[1] = c
          /\ Len(KidIDs(s.tasks, ParentID(s.tasks, c))) >= 2
          /\ tasks # s.tasks
          /\ KidIDs(tasks, ParentID(s.tasks, c)) =
                Append(Without(KidIDs(s.tasks, ParentID(s.tasks, c)), c), c)

====
